---- MODULE Spec2Model ----
(***************************************************************************)
(* Lead synchronisation core of fb-leads (META-CRM):                       *)
(*   FacebookLeadController.syncFacebookLeads   (controllers, part_001)    *)
(*   FacebookLeadService.validateUserConfig / fetchFacebookLeads /         *)
(*   fetchLeadsForForm / normalizeLead           (services, part_003)      *)
(*   models Lead, Form, User                                                *)
(* Every await of the code is one atomic step of a caller; two callers     *)
(* (the manual "sync now" request and the scheduled tick) interleave at    *)
(* those steps.                                                             *)
(***************************************************************************)
EXTENDS Integers, Sequences, FiniteSets, TLC

(* ------------------------------ bounds -------------------------------- *)
\* sync calls started over a run (manual requests + scheduled syncs)
MaxCalls == 2

(* --------------------------- value encoding --------------------------- *)
\* JavaScript null/undefined of a string-valued field
Null == "null"
\* a Date field that is null
NoDate == 0
\* new Date(<unparsable string>): an Invalid Date, which Mongoose cannot cast
InvalidDate == -1
\* a lead of the upstream without created_time
NoTime == 0
\* the first instant of the run: the newest upstream lead was created at 3
Now0 == 3 + 1
\* undefined `since` / `appId` (values that are tuples when defined)
Undef == <<>>
\* undefined `after` cursor
NoCursor == 0

\* Date.prototype.toISOString: a string that denotes the instant t
toISOString(t) == <<"iso", t>>
\* how the upstream reads a `since` parameter back
SinceInstant(s) == s[2]

\* String.prototype.toLowerCase on the field names the upstream uses here
\* and on the credential names
toLowerCase(s) ==
  CASE s = "Email" -> "email"
    [] s = "Mine" -> "mine"
    [] s = "MINE" -> "mine"
    [] s = "Other" -> "other"
    [] s = "FULL_NAME" -> "full_name"
    [] s = "Phone Number" -> "phone number"
    [] OTHER -> s

(* ------------------------------ the data ------------------------------ *)
Procs == {"manual", "cron"}

\* a credential id given as a request string, and as a stored ObjectId
Str(id) == <<"string", id>>
Oid(id) == <<"ObjectId", id>>

App(id, tok) == [_id |-> id, accessToken |-> tok]

\* the states the user documents can be in when the run starts
\* (u1: two credentials / only a legacy token / nothing; u2: one credential)
UserConfigs ==
  { [u1 |-> [facebookApps |-> <<App("A1", "tok1"), App("A2", "tok2")>>,
             accessToken |-> "tok2"],
     u2 |-> [facebookApps |-> <<App("A3", "tok3")>>, accessToken |-> "tok3"]],
    [u1 |-> [facebookApps |-> <<>>, accessToken |-> "tokL"],
     u2 |-> [facebookApps |-> <<App("A3", "tok3")>>, accessToken |-> "tok3"]],
    [u1 |-> [facebookApps |-> <<>>, accessToken |-> Null],
     u2 |-> [facebookApps |-> <<App("A3", "tok3")>>, accessToken |-> "tok3"]] }

UserIds == {"u1", "u2"}

FormDoc(id, u, f, active, app) ==
  [_id |-> id, userId |-> u, formId |-> f, formName |-> Null,
   isActive |-> active, facebookAppId |-> app, lastFetchedAt |-> NoDate]

\* the Form collection when the run starts: u1 discovered F1 with credential
\* A1 and added F2 by hand (no credential); u2 discovered the same upstream
\* form F1 and has switched it off; the owner of the last form is gone
InitForms ==
  << FormDoc("d1", "u1", "F1", TRUE, Oid("A1")),
     FormDoc("d2", "u1", "F2", TRUE, Undef),
     FormDoc("d3", "u2", "F1", FALSE, Oid("A3")),
     FormDoc("d4", "u9", "F2", TRUE, Undef) >>

\* a raw lead of the upstream: field_data is a list of <<name, values>>
\* entries, <<>> standing for a null entry
Raw(id, t, fd) ==
  [isObject |-> TRUE, id |-> id, created_time |-> t, form_id |-> Null, field_data |-> fd]

\* the pages of {form}/leads, in cursor order
Upstream(formId) ==
  CASE formId = "F1" ->
         << << Raw("L1", 1, << <<"Email", <<"a@x">> >> >>),
               Raw("LB", 2, << <<"Email", <<"b@x">> >>, <<>> >>),
               Raw("L2", 2, << <<"FULL_NAME", <<"Cy">> >>, <<"Phone Number", <<>> >> >>) >>,
            << Raw("L3", 3, << <<"Email", <<"c@x">> >> >>) >> >>
    [] formId = "F2" ->
         << << Raw("LX", InvalidDate, << >>),
               Raw("L5", 1, << <<"mobile", <<"555">> >> >>) >> >>
    [] OTHER -> << >>

(* ------------------- FacebookLeadService.normalizeLead ------------------ *)
\* field.values[0] of a field entry, null when values is missing or empty
FieldValue(field) == IF Len(field[2]) = 0 THEN Null ELSE field[2][1]

\* field.name?.toLowerCase() || 'unknown'
FieldName(field) == IF field[1] = "" THEN "unknown" ELSE toLowerCase(field[1])

\* reading field.values of a null entry throws; so does a lead that is no object
normalizeThrows(lead) ==
  \/ ~lead.isObject
  \/ \E i \in 1..Len(lead.field_data) : lead.field_data[i] = <<>>

fieldDataOf(lead) ==
  [i \in 1..Len(lead.field_data) |->
     [name |-> FieldName(lead.field_data[i]), value |-> FieldValue(lead.field_data[i])]]

\* the for-loop over fieldData: the last field whose name is an alias wins
RECURSIVE Extract(_, _, _)
Extract(fieldData, aliases, found) ==
  IF fieldData = <<>> THEN found
  ELSE Extract(Tail(fieldData), aliases,
               IF toLowerCase(Head(fieldData).name) \in aliases
               THEN Head(fieldData).value ELSE found)

normalizeLead(lead, formId, formName, clock) ==
  LET fieldData == fieldDataOf(lead) IN
  [leadId      |-> IF lead.id = Null THEN "unknown" ELSE lead.id,
   formId      |-> IF lead.form_id = Null THEN formId ELSE lead.form_id,
   formName    |-> formName,
   createdTime |-> IF lead.created_time = NoTime THEN clock ELSE lead.created_time,
   fullName    |-> Extract(fieldData, {"full_name", "name", "full name"}, Null),
   email       |-> Extract(fieldData, {"email", "email address"}, Null),
   phone       |-> Extract(fieldData, {"phone", "phone number", "mobile", "contact"}, Null)]

\* a try/catch around the whole map: one throwing lead loses the page
normalizePage_AbortOnThrow(data, formId, formName, clock) ==
  IF \E i \in DOMAIN data : normalizeThrows(data[i]) THEN <<>>
  ELSE [i \in DOMAIN data |-> normalizeLead(data[i], formId, formName, clock)]

\* response.data.data.map(normalize-or-null).filter(lead => lead !== null)
RECURSIVE normalizePage(_, _, _, _)
normalizePage(data, formId, formName, clock) ==
  IF data = <<>> THEN <<>>
  ELSE LET rest == normalizePage(Tail(data), formId, formName, clock) IN
       IF normalizeThrows(Head(data)) THEN rest
       ELSE <<normalizeLead(Head(data), formId, formName, clock)>> \o rest

(* ---------------- FacebookLeadService.validateUserConfig --------------- *)
\* app._id.toString() === appId : a strict comparison of a string with appId
SameAppId(app, appId) == appId = Str(app._id)

Found(apps, appId) == SelectSeq(apps, LAMBDA a : SameAppId(a, appId))

\* users is the User collection; a userId outside its domain finds no user
validateUserConfig(userDocs, userId, appId) ==
  IF userId \notin DOMAIN userDocs
  THEN [ok |-> FALSE, error |-> "User not found", accessToken |-> Null, appId |-> Null]
  ELSE LET user == userDocs[userId] IN
       IF appId # Undef /\ Len(user.facebookApps) > 0
       THEN IF Found(user.facebookApps, appId) # <<>>
            THEN [ok |-> TRUE, error |-> Null,
                  accessToken |-> Found(user.facebookApps, appId)[1].accessToken,
                  appId |-> Found(user.facebookApps, appId)[1]._id]
            ELSE [ok |-> FALSE, error |-> "Facebook app not found",
                  accessToken |-> Null, appId |-> Null]
       ELSE IF Len(user.facebookApps) > 0
       THEN [ok |-> TRUE, error |-> Null,
             accessToken |-> user.facebookApps[1].accessToken,
             appId |-> user.facebookApps[1]._id]
       ELSE IF user.accessToken # Null
       THEN [ok |-> TRUE, error |-> Null, accessToken |-> user.accessToken,
             appId |-> "legacy"]
       ELSE [ok |-> FALSE, error |-> "Facebook Access Token is required",
             accessToken |-> Null, appId |-> Null]

(* ------------------------------- state -------------------------------- *)
VARIABLES
  users,      \* the User collection: userId -> [facebookApps, accessToken]
  forms,      \* the Form collection, in natural order
  leads,      \* the Lead collection, in natural order
  now,        \* the clock read by `new Date()`; it advances between calls
  call,       \* per caller: the activation of syncFacebookLeads it runs
  cronForms,  \* the forms the running scheduled tick has still to sync
  calls       \* sync calls started so far

\* the insights cache and its callers (AnalyticsService)
VARIABLES
  cache,      \* the Analytics collection, in natural order
  get,        \* per caller: the insights request it runs
  refresh,    \* the records the running refresh tick has still to process
  gets        \* insights requests and clock advances so far

\* the credential store and its callers (FacebookTokenService)
VARIABLES
  exchange,   \* per caller: the token exchange it runs
  reply,      \* the last HTTP response of a credential handler
  created,    \* ObjectIds and generated appIds issued so far
  ops         \* credential operations started so far

\* form discovery and form maintenance (discoverForms, FacebookPageService,
\* addForm, migrateForms)
VARIABLES
  discovery,  \* the discovery that runs, or the last one that was answered
  runs,       \* form operations started so far
  answer      \* the last HTTP response of POST /forms or POST /migrate-forms

analyticsVars == <<cache, get, refresh, gets>>
tokenVars == <<exchange, reply, created, ops>>
discoveryVars == <<discovery, runs, answer>>
syncVars == <<forms, leads, call, cronForms, calls>>
\* what the lead sync never touches
sideVars == <<analyticsVars, tokenVars, discoveryVars>>

vars == <<users, forms, leads, now, call, cronForms, calls, analyticsVars, tokenVars,
          discoveryVars>>

\* a caller that is not inside syncFacebookLeads
IdleCall ==
  [pc |-> "idle", userId |-> Null, formId |-> Null, appId |-> Undef,
   since |-> Undef, accessToken |-> Null, forms |-> <<>>,
   pageSince |-> Undef, after |-> NoCursor,
   formLeads |-> <<>>, allLeads |-> <<>>, k |-> 0,
   totalFetched |-> 0, inserted |-> 0, errors |-> <<>>, error |-> Null,
   savedLead |-> <<>>,
   \* history of this call: requests sent, raw pages received for the form
   \* being fetched, forms whose lastFetchedAt it wrote
   sent |-> <<>>, pages |-> <<>>, saved |-> {}]

\* the callers of the insights cache: two HTTP requests that may overlap
AProcs == {"a", "b"}

\* a caller whose handler has not been called; otherwise get[p] is the
\* request p runs or the last one it answered
IdleGet ==
  [pc |-> "idle", path |-> Null, userId |-> Null, accessToken |-> Null,
   adAccountId |-> Null, datePreset |-> Null, breakdown |-> Null,
   forceRefresh |-> FALSE, freshData |-> Null, expiresAt |-> NoDate,
   analytics |-> <<>>, result |-> Null, error |-> Null,
   \* history of this request: the upstream requests it sent
   sent |-> <<>>]

\* no refresh tick is running
IdleRefresh == <<>>

\* no token exchange in flight
IdleExchange == [pc |-> "idle", userId |-> Null, appId |-> Null, accessToken |-> Null]

\* no credential handler has answered yet
NoReply == [handler |-> Null]

\* no lead sync is running and nothing is stored
SyncIdle ==
  /\ forms = <<>>
  /\ leads = <<>>
  /\ call = [p \in Procs |-> IdleCall]
  /\ cronForms = <<>>
  /\ calls = 0

\* nothing is cached and no insights request is running
AnalyticsIdle ==
  /\ cache = <<>>
  /\ get = [p \in AProcs |-> IdleGet]
  /\ refresh = IdleRefresh
  /\ gets = 0

\* no discovery has been started
IdleDiscovery ==
  [pc |-> "idle", via |-> Null, userId |-> Null, appId |-> Null, app |-> Null,
   accessToken |-> Null, pages |-> <<>>, scanned |-> 0, totalForms |-> 0,
   savedForms |-> 0, status |-> 0,
   \* history of this discovery: the pages whose processing failed
   failed |-> {}]

\* no form has been added and no migration has run
NoAnswer == [route |-> Null, status |-> 0]

DiscoveryIdle ==
  /\ discovery = IdleDiscovery
  /\ runs = 0
  /\ answer = NoAnswer

\* no credential handler is running
TokenIdle ==
  /\ exchange = IdleExchange
  /\ reply = NoReply
  /\ created = 0
  /\ ops = 0

Init ==
  /\ users \in UserConfigs
  /\ forms = InitForms
  /\ leads = <<>>
  /\ now = Now0
  /\ call = [p \in Procs |-> IdleCall]
  /\ cronForms = <<>>
  /\ calls = 0
  /\ AnalyticsIdle
  /\ TokenIdle
  /\ DiscoveryIdle

(* ------------------------- the Lead collection ------------------------ *)
\* Lead.findOne(query, {createdTime: 1}).sort({createdTime: -1}) with
\* query = {userId} or {userId, formId}
Matching(ls, userId, formId) ==
  SelectSeq(ls, LAMBDA l : l.userId = userId /\ (formId = Null \/ l.formId = formId))

MinCreatedTime(ls) ==
  CHOOSE t \in {ls[i].createdTime : i \in DOMAIN ls} :
    \A i \in DOMAIN ls : ls[i].createdTime >= t

MaxCreatedTime(ls) ==
  CHOOSE t \in {ls[i].createdTime : i \in DOMAIN ls} :
    \A i \in DOMAIN ls : ls[i].createdTime =< t

\* a sort in ascending order: the oldest lead instead of the newest
Watermark_Oldest(ls, userId, formId) ==
  IF Matching(ls, userId, formId) = <<>> THEN Undef
  ELSE toISOString(MinCreatedTime(Matching(ls, userId, formId)))

\* since: lastLead ? lastLead.createdTime.toISOString() : undefined
Watermark(ls, userId, formId) ==
  IF Matching(ls, userId, formId) = <<>> THEN Undef
  ELSE toISOString(MaxCreatedTime(Matching(ls, userId, formId)))

\* position of the document findOneAndUpdate({leadId}) matches, 0 when none
FirstWith(ls, leadId) ==
  IF \E i \in DOMAIN ls : ls[i].leadId = leadId
  THEN CHOOSE i \in DOMAIN ls :
         /\ ls[i].leadId = leadId
         /\ \A j \in DOMAIN ls : ls[j].leadId = leadId => i =< j
  ELSE 0

\* an index that is not unique lets every insert through
LeadIdIndexAllows_NotUnique(ls, leadId) == TRUE

\* leadSchema.leadId {unique: true}: the insert of a second document with the
\* same leadId is rejected (E11000)
LeadIdIndexAllows(ls, leadId) == FirstWith(ls, leadId) = 0

\* a replacement of the document resets the fields the update does not name
SetFromLead_Replace(doc, lead, clock) ==
  [leadId |-> lead.leadId, userId |-> lead.userId, formId |-> lead.formId,
   createdTime |-> lead.createdTime, fullName |-> lead.fullName,
   email |-> lead.email, phone |-> lead.phone,
   status |-> "new", notes |-> Null, lastSyncedAt |-> clock]

\* the update {...lead, lastSyncedAt: new Date()}, which Mongoose applies as $set
SetFromLead(doc, lead, clock) ==
  [doc EXCEPT !.leadId = lead.leadId, !.userId = lead.userId,
              !.formId = lead.formId, !.createdTime = lead.createdTime,
              !.fullName = lead.fullName, !.email = lead.email,
              !.phone = lead.phone, !.lastSyncedAt = clock]

\* the document an upsert inserts: the schema defaults, then the update
NewLeadDoc(lead, clock) ==
  SetFromLead([leadId |-> Null, userId |-> Null, formId |-> Null,
               createdTime |-> NoDate, fullName |-> Null, email |-> Null,
               phone |-> Null, status |-> "new", notes |-> Null,
               lastSyncedAt |-> clock], lead, clock)

(* ------------------------------ upstream ------------------------------ *)
\* what GET {form}/leads answers to a request that does not fail
Response(req) ==
  LET chain == Upstream(req.formId)
      i     == IF req.after = NoCursor THEN 1 ELSE req.after
  IN [data |-> SelectSeq(chain[i],
                 LAMBDA l : req.since = Undef \/ l.created_time >= SinceInstant(req.since)),
      next |-> IF i < Len(chain) THEN i + 1 ELSE NoCursor]

(* ------------- FacebookLeadController.syncFacebookLeads --------------- *)
Set(p, c) == call' = [call EXCEPT ![p] = c]

\* entry of syncFacebookLeads: destructure the options, check userId, and
\* issue the watermark query
StartSync(p, userId, formId, appId) ==
  /\ calls' = calls + 1
  /\ now' = now + 1
  /\ IF userId = Null
     THEN Set(p, [IdleCall EXCEPT !.pc = "failed", !.formId = formId, !.appId = appId,
                                  !.error = "User ID is required for syncing leads"])
     ELSE Set(p, [IdleCall EXCEPT !.pc = "watermark", !.userId = userId,
                                  !.formId = formId, !.appId = appId])

\* the "sync now" requests made: <<userId of the session, formId, appId>>
ManualInputs ==
  { <<"u1", Null, Undef>>,          \* all forms of u1
    <<"u1", "F1", Undef>>,          \* one form
    <<"u1", "F1", Str("A2")>>,      \* one form, with a named credential
    <<"u1", Null, Str("A2")>>,      \* the forms of a named credential
    <<"u1", Null, Str("legacy")>>,  \* all forms, with the legacy token
    <<"u1", "d3", Undef>>,          \* the form document of another user
    <<"u2", Null, Undef>>,          \* a user without an active form
    <<"u0", "F1", Undef>> }         \* a session whose user is gone

\* handleManualSync: userId of the session, formId and appId of the query
handleManualSync(userId, formId, appId) ==
  /\ call["manual"].pc = "idle"
  /\ calls < MaxCalls
  /\ StartSync("manual", userId, formId, appId)
  /\ UNCHANGED <<sideVars, users, forms, leads, cronForms>>

\* Form.find({isActive: true}).populate('userId'): the owner's document, or
\* null when the owner is gone
\* (of the form the callback reads userId, formId and facebookAppId)
Populate(userDocs, form) ==
  [userId |-> IF form.userId \in DOMAIN userDocs THEN form.userId ELSE Null,
   formId |-> form.formId, facebookAppId |-> form.facebookAppId]

\* a query without the isActive filter
ActiveForms_All(fs, userDocs) ==
  [i \in 1..Len(fs) |-> Populate(userDocs, fs[i])]

ActiveForms(fs, userDocs) ==
  LET active == SelectSeq(fs, LAMBDA f : f.isActive)
  IN [i \in 1..Len(active) |-> Populate(userDocs, active[i])]

\* the scheduled callback starts: it loads the active forms
cronTick ==
  /\ call["cron"].pc = "idle"
  /\ cronForms = <<>>
  /\ calls < MaxCalls
  /\ cronForms' = ActiveForms(forms, users)
  /\ UNCHANGED <<sideVars, users, forms, leads, now, call, calls>>

\* the loop of the scheduled callback: sync the next form with the form's
\* own userId, formId and facebookAppId
cronSync ==
  /\ call["cron"].pc = "idle"
  /\ cronForms # <<>>
  /\ calls < MaxCalls
  /\ StartSync("cron", Head(cronForms).userId, Head(cronForms).formId,
               Head(cronForms).facebookAppId)
  /\ cronForms' = Tail(cronForms)
  /\ UNCHANGED <<sideVars, users, forms, leads>>

\* await Lead.findOne(...): the watermark, then fetchFacebookLeads is entered
\* and User.findById is issued
ReadWatermark(p) ==
  /\ call[p].pc = "watermark"
  /\ Set(p, [call[p] EXCEPT !.pc = "validate",
                            !.since = Watermark(leads, call[p].userId, call[p].formId)])
  /\ UNCHANGED <<sideVars, users, forms, leads, now, cronForms, calls>>

\* the wrapper of the outer catch: throw new Error(`Lead sync failed: ...`)
Fail(p, message) == Set(p, [call[p] EXCEPT !.pc = "failed", !.error = message])

\* await User.findById(...) inside validateUserConfig; on success the form
\* query is issued
ValidateConfig(p) ==
  LET cfg == validateUserConfig(users, call[p].userId, call[p].appId) IN
  /\ call[p].pc = "validate"
  /\ IF cfg.ok
     THEN Set(p, [call[p] EXCEPT !.pc = "forms", !.accessToken = cfg.accessToken])
     ELSE Fail(p, cfg.error)
  /\ UNCHANGED <<sideVars, users, forms, leads, now, cronForms, calls>>

\* an explicit form looked up without its owner
TargetForms_AnyOwner(fs, userId, formId, appId) ==
  IF formId # Null
  THEN LET hit == SelectSeq(fs, LAMBDA f : f._id = formId \/ f.formId = formId)
       IN IF hit = <<>> THEN <<>> ELSE <<hit[1]>>
  ELSE SelectSeq(fs, LAMBDA f : f.userId = userId /\ f.isActive)

\* Form.findOne({userId, $or: [{_id: formId}, {formId}]}), or
\* Form.find({userId, isActive: true[, facebookAppId: appId]})
TargetForms(fs, userId, formId, appId) ==
  IF formId # Null
  THEN LET hit == SelectSeq(fs, LAMBDA f :
                    f.userId = userId /\ (f._id = formId \/ f.formId = formId))
       IN IF hit = <<>> THEN <<>> ELSE <<hit[1]>>
  ELSE SelectSeq(fs, LAMBDA f :
         /\ f.userId = userId
         /\ f.isActive
         /\ (appId # Undef /\ appId # Str("legacy")) => f.facebookAppId = Oid(appId[2]))

\* what fetchFacebookLeads uses of a loaded form document: its identity for
\* save(), and formId and formName for the fetch
RECURSIVE Loaded(_)
Loaded(fs) ==
  IF fs = <<>> THEN <<>>
  ELSE <<[_id |-> Head(fs)._id, formId |-> Head(fs).formId,
          formName |-> Head(fs).formName]>> \o Loaded(Tail(fs))

\* the first request of fetchLeadsForForm carries the caller's since
FirstPage(c, fs) ==
  [c EXCEPT !.pc = "fetch", !.forms = fs, !.pageSince = c.since,
            !.after = NoCursor, !.formLeads = <<>>, !.pages = <<>>]

\* await Form.findOne / Form.find; then the loop over the forms starts
ResolveForms(p) ==
  LET c  == call[p]
      fs == TargetForms(forms, c.userId, c.formId, c.appId) IN
  /\ c.pc = "forms"
  /\ IF fs = <<>>
     THEN Fail(p, IF c.formId # Null THEN "Form not found"
                  ELSE "No active forms found for this user")
     ELSE Set(p, FirstPage(c, Loaded(fs)))
  /\ UNCHANGED <<sideVars, users, forms, leads, now, cronForms, calls>>

(* ---------------- FacebookLeadService.fetchLeadsForForm --------------- *)
\* the options of the recursive call for the next page: formId, formName,
\* pageId, pageName, accessToken, limit and after; `since` is not among them
NextPageSince(since) == Undef

\* normalizedLeads.push(...nextPageLeads): the pages in cursor order
Accumulate_Overwrite(formLeads, pageLeads) == pageLeads

Accumulate(formLeads, pageLeads) == formLeads \o pageLeads

\* the query string of GET {form}/leads
LeadsRequest(c) ==
  [formId |-> Head(c.forms).formId, access_token |-> c.accessToken,
   since |-> c.pageSince, after |-> c.after]

\* processedLeads = formLeads.map(lead => ({...lead, userId}))
RECURSIVE WithUserId(_, _)
WithUserId(ls, userId) ==
  IF ls = <<>> THEN <<>>
  ELSE <<[leadId |-> Head(ls).leadId, userId |-> userId, formId |-> Head(ls).formId,
          formName |-> Head(ls).formName, createdTime |-> Head(ls).createdTime,
          fullName |-> Head(ls).fullName, email |-> Head(ls).email,
          phone |-> Head(ls).phone]>> \o WithUserId(Tail(ls), userId)

\* fetchLeadsForForm returned to fetchFacebookLeads: the leads are pushed to
\* allLeads and form.save() is issued
FormFetched(c, formLeads) ==
  [c EXCEPT !.pc = "save", !.formLeads = formLeads,
            !.allLeads = c.allLeads \o WithUserId(formLeads, c.userId)]

\* one axios.get of fetchLeadsForForm and what follows its answer.
\* ok = FALSE: the request fails (non-2xx, network).  On the first page the
\* error leaves fetchLeadsForForm and fetchFacebookLeads; on a later page
\* the frame of the page before catches it and returns what it has.
FetchPage(p, ok) ==
  LET c    == call[p]
      req  == LeadsRequest(c)
      form == Head(c.forms)
      c1   == [c EXCEPT !.sent = Append(c.sent, req)] IN
  /\ c.pc = "fetch"
  /\ IF ~ok
     THEN IF c.after = NoCursor
          THEN Set(p, [c1 EXCEPT !.pc = "failed", !.error = "Facebook API Error"])
          ELSE Set(p, FormFetched(c1, c.formLeads))
     ELSE LET resp == Response(req)
              got  == Accumulate(c.formLeads,
                        normalizePage(resp.data, form.formId, form.formName, now))
              c2   == [c1 EXCEPT !.pages = Append(c.pages, resp.data)]
          IN IF resp.next # NoCursor
             THEN Set(p, [c2 EXCEPT !.formLeads = got, !.after = resp.next,
                                    !.pageSince = NextPageSince(c.pageSince)])
             ELSE Set(p, FormFetched(c2, got))
  /\ UNCHANGED <<sideVars, users, forms, leads, now, cronForms, calls>>

(* --------------- fetchFacebookLeads / syncFacebookLeads ---------------- *)
\* form.lastFetchedAt = new Date(); form.save()
SaveLastFetched(fs, id, clock) ==
  [i \in DOMAIN fs |-> IF fs[i]._id = id THEN [fs[i] EXCEPT !.lastFetchedAt = clock]
                       ELSE fs[i]]

\* the for-loop over leads moves on, or the results are returned
NextLead(c) ==
  IF c.k < Len(c.allLeads) THEN [c EXCEPT !.pc = "upsert", !.k = c.k + 1]
  ELSE [c EXCEPT !.pc = "done"]

\* await form.save(); then the next form is fetched, or all forms are done:
\* results.totalFetched = leads.length and the loop over the leads starts
SaveForm(p) ==
  LET c    == call[p]
      form == Head(c.forms)
      c1   == [c EXCEPT !.saved = c.saved \cup {form._id}] IN
  /\ c.pc = "save"
  /\ forms' = SaveLastFetched(forms, form._id, now)
  /\ IF Tail(c.forms) # <<>>
     THEN Set(p, FirstPage(c1, Tail(c.forms)))
     ELSE Set(p, NextLead([c1 EXCEPT !.forms = <<>>, !.formLeads = <<>>,
                                     !.pages = <<>>, !.after = NoCursor,
                                     !.totalFetched = Len(c.allLeads)]))
  /\ UNCHANGED <<sideVars, users, leads, now, cronForms, calls>>

\* const savedLead = await ...; results.inserted++
Counted(c, savedLead) == [c EXCEPT !.inserted = c.inserted + 1, !.savedLead = savedLead]

\* a catch that leaves the loop
AfterError_Abort(c) == [c EXCEPT !.pc = "done"]

\* the catch is inside the for-loop: the loop goes on with the next lead
AfterError(c) == NextLead(c)

\* results.errors.push({leadId, error: error.message})
Errored(c, leadId, message) ==
  AfterError([c EXCEPT !.errors = Append(c.errors, [leadId |-> leadId, error |-> message])])

\* await Lead.findOneAndUpdate({leadId}, {...lead, lastSyncedAt}, {upsert}):
\* a createdTime that is an Invalid Date fails the cast; a matching document
\* is updated; with no match the server goes on to insert
UpsertLead(p) ==
  LET c    == call[p]
      lead == c.allLeads[c.k]
      i    == FirstWith(leads, lead.leadId) IN
  /\ c.pc = "upsert"
  /\ IF lead.createdTime = InvalidDate
     THEN /\ Set(p, Errored(c, lead.leadId, "Cast to date failed"))
          /\ UNCHANGED leads
     ELSE IF i # 0
     THEN /\ leads' = [leads EXCEPT ![i] = SetFromLead(leads[i], lead, now)]
          /\ Set(p, NextLead(Counted(c, SetFromLead(leads[i], lead, now))))
     ELSE /\ Set(p, [c EXCEPT !.pc = "insert"])
          /\ UNCHANGED leads
  /\ UNCHANGED <<sideVars, users, forms, now, cronForms, calls>>

\* the insert half of the upsert.  When another writer inserted the same
\* leadId in between, the unique index rejects the insert; the server then
\* either retries the upsert as an update or reports E11000.
InsertLead(p, retry) ==
  LET c    == call[p]
      lead == c.allLeads[c.k]
      i    == FirstWith(leads, lead.leadId) IN
  /\ c.pc = "insert"
  /\ IF LeadIdIndexAllows(leads, lead.leadId)
     THEN /\ leads' = Append(leads, NewLeadDoc(lead, now))
          /\ Set(p, NextLead(Counted(c, NewLeadDoc(lead, now))))
     ELSE IF retry
     THEN /\ leads' = [leads EXCEPT ![i] = SetFromLead(leads[i], lead, now)]
          /\ Set(p, NextLead(Counted(c, SetFromLead(leads[i], lead, now))))
     ELSE /\ Set(p, Errored(c, lead.leadId, "E11000 duplicate key"))
          /\ UNCHANGED leads
  /\ UNCHANGED <<sideVars, users, forms, now, cronForms, calls>>

\* the results (or the error) reach the caller: the HTTP response of
\* handleManualSync, the log of the scheduled callback
Return(p) ==
  /\ call[p].pc \in {"done", "failed"}
  /\ Set(p, IdleCall)
  /\ UNCHANGED <<sideVars, users, forms, leads, now, cronForms, calls>>

(* --------------------------- updateLeadStatus -------------------------- *)
StatusInputs == {"contacted"}
NotesInputs == {"called"}

\* Lead.findOneAndUpdate({userId, leadId}, {status, notes})
updateLeadStatus(userId, leadId, status, notes) ==
  LET hit == {i \in DOMAIN leads : leads[i].userId = userId /\ leads[i].leadId = leadId} IN
  /\ hit # {}
  /\ LET i == CHOOSE i \in hit : \A j \in hit : i =< j
     IN leads' = [leads EXCEPT ![i].status = status, ![i].notes = notes]
  /\ UNCHANGED <<sideVars, users, forms, now, call, cronForms, calls>>

\* the leads the user edits
EditInputs == {"L2", "L3"}

Next ==
  \/ \E in \in ManualInputs : handleManualSync(in[1], in[2], in[3])
  \/ cronTick
  \/ cronSync
  \/ \E p \in Procs : ReadWatermark(p)
  \/ \E p \in Procs : ValidateConfig(p)
  \/ \E p \in Procs : ResolveForms(p)
  \/ \E p \in Procs, ok \in BOOLEAN : FetchPage(p, ok)
  \/ \E p \in Procs : SaveForm(p)
  \/ \E p \in Procs : UpsertLead(p)
  \/ \E p \in Procs, retry \in BOOLEAN : InsertLead(p, retry)
  \/ \E p \in Procs : Return(p)
  \/ \E u \in UserIds, l \in EditInputs, s \in StatusInputs, n \in NotesInputs :
       updateLeadStatus(u, l, s, n)

Spec == Init /\ [][Next]_vars

(* ======================= properties of the sync ====================== *)
\* the callers that are inside syncFacebookLeads
Running(p) == call[p].pc # "idle"

\* the stored documents with a given leadId
Copies(leadId) == {i \in DOMAIN leads : leads[i].leadId = leadId}

(* C1: whatever syncs ran and however they interleaved, the Lead collection
   holds at most one document per upstream lead id, and every lead a call
   counted as inserted is stored (so: exactly one document). *)
C1_OneLeadPerLeadId ==
  /\ \A i, j \in DOMAIN leads : leads[i].leadId = leads[j].leadId => i = j
  /\ \A p \in Procs :
       call[p].savedLead # <<>> => Cardinality(Copies(call[p].savedLead.leadId)) = 1

\* two syncs raced on one lead id: the insert of the second writer met the
\* document of the first, and one document is stored
C1_Witness ==
  \E p \in Procs : \E e \in DOMAIN call[p].errors :
    /\ call[p].errors[e].error = "E11000 duplicate key"
    /\ Cardinality(Copies(call[p].errors[e].leadId)) = 1
    /\ \A q \in Procs : call[q].pc = "done"

(* C2: a step of a sync leaves status and notes of every stored lead as
   they were; the document an upsert of the sync matched gets
   lastSyncedAt = the current time and is the document returned. *)
C2_SyncKeepsStatusAndNotes ==
  [][\A p \in Procs :
       call'[p] # call[p] =>
         /\ \A i \in DOMAIN leads :
              /\ i \in DOMAIN leads'
              /\ leads'[i].status = leads[i].status
              /\ leads'[i].notes = leads[i].notes
         /\ (/\ call[p].pc \in {"upsert", "insert"}
             /\ call'[p].inserted = call[p].inserted + 1
             /\ Copies(call[p].allLeads[call[p].k].leadId) # {})
            => \E i \in Copies(call[p].allLeads[call[p].k].leadId) :
                 /\ leads'[i].lastSyncedAt = now
                 /\ call'[p].savedLead = leads'[i]]_vars

\* a sync has re-upserted a lead whose status and notes the user had set:
\* the document its upsert returned carries them, and the time of this sync
C2_Witness ==
  \E p \in Procs :
    /\ call[p].savedLead # <<>>
    /\ call[p].savedLead.status = "contacted"
    /\ call[p].savedLead.notes = "called"
    /\ call[p].savedLead.lastSyncedAt = now

\* the createdTime values stored for (userId[, formId])
StoredTimes(userId, formId) ==
  {leads[i].createdTime : i \in {j \in DOMAIN leads :
      /\ leads[j].userId = userId
      /\ formId # Null => leads[j].formId = formId}}

(* C3: the watermark a sync reads is the greatest createdTime stored for
   (userId[, formId]), and is undefined when nothing is stored for it; the
   first request for every form carries exactly that value as `since`. *)
C3_WatermarkIsMax ==
  /\ [][\A p \in Procs :
          (call[p].pc = "watermark" /\ call'[p].pc = "validate") =>
            LET times == StoredTimes(call[p].userId, call[p].formId)
                since == call'[p].since
            IN /\ times = {} => since = Undef
               /\ times # {} =>
                    /\ since # Undef
                    /\ since = toISOString(SinceInstant(since))
                    /\ SinceInstant(since) \in times
                    /\ \A t \in times : t =< SinceInstant(since)]_vars
  /\ [](\A p \in Procs : \A r \in DOMAIN call[p].sent :
          call[p].sent[r].after = NoCursor => call[p].sent[r].since = call[p].since)

\* leads with three different createdTime values are stored for the form,
\* and the request of the next sync carries the greatest as `since`
C3_Witness ==
  \E p \in Procs :
    /\ call[p].formId = "F1"
    /\ call[p].sent # <<>>
    /\ call[p].sent[1].since = toISOString(3)
    /\ {1, 2, 3} \subseteq StoredTimes(call[p].userId, "F1")

(* C4: every request a sync sends for a form, the first page and every page
   reached through the `after` cursor, carries since = the watermark. *)
C4_EveryPageCarriesSince ==
  \A p \in Procs : \A r \in DOMAIN call[p].sent :
    call[p].sent[r].since = call[p].since

\* the leadIds of a list of leads
Ids(ls) == {ls[i].leadId : i \in DOMAIN ls}

\* the requests a call sent for the form it is fetching
FormRequests(c) == SelectSeq(c.sent, LAMBDA r : r.formId = Head(c.forms).formId)

\* the normalized leads of a list of raw pages, in page order
RECURSIVE NormalizedPages(_, _, _, _)
NormalizedPages(pages, formId, formName, clock) ==
  IF pages = <<>> THEN <<>>
  ELSE normalizePage(Head(pages), formId, formName, clock)
       \o NormalizedPages(Tail(pages), formId, formName, clock)

UserMissing(c) == c.userId \notin DOMAIN users

NoCredential(c) ==
  /\ c.userId \in DOMAIN users
  /\ LET user == users[c.userId] IN
     \/ user.facebookApps = <<>> /\ user.accessToken = Null
     \/ /\ c.appId # Undef
        /\ user.facebookApps # <<>>
        /\ \A i \in DOMAIN user.facebookApps : user.facebookApps[i]._id # c.appId[2]

FormNotOfUser(c) ==
  /\ c.formId # Null
  /\ ~\E i \in DOMAIN forms :
        /\ forms[i].userId = c.userId
        /\ (forms[i].formId = c.formId \/ forms[i]._id = c.formId)

NoActiveForm(c) ==
  /\ c.formId = Null
  /\ ~\E i \in DOMAIN forms : forms[i].userId = c.userId /\ forms[i].isActive

PreconditionFails(c) ==
  UserMissing(c) \/ NoCredential(c) \/ FormNotOfUser(c) \/ NoActiveForm(c)

(* C6: a sync whose user is missing, for which no credential can be
   resolved, whose formId is no form of the user, or (without formId) whose
   user has no active form never gets to the fetch: it sent no upstream
   request, wrote no Form.lastFetchedAt and upserted no lead. *)
C6_PreconditionFailureDoesNothing ==
  \A p \in Procs :
    (Running(p) /\ PreconditionFails(call[p])) =>
      /\ call[p].pc \in {"watermark", "validate", "forms", "failed"}
      /\ call[p].sent = <<>>
      /\ call[p].saved = {}
      /\ call[p].k = 0
      /\ call[p].inserted = 0
      /\ call[p].savedLead = <<>>

\* a sync for the form document of another user has failed, having done nothing
C6_Witness ==
  \E p \in Procs :
    /\ call[p].pc = "failed"
    /\ call[p].formId = "d3"
    /\ FormNotOfUser(call[p])
    /\ call[p].error = "Form not found"
    /\ call[p].sent = <<>>

(* C7, as claimed: with an explicit appId the token used is the token of the
   credential with that id, and the call fails when the user has no such
   credential; without an explicit appId the first credential's token is
   used, the legacy token only when the user has no credential, and with
   none of these the call fails. *)
C7_CredentialPriority ==
  \A p \in Procs :
    LET c == call[p]
        resolved == c.accessToken # Null
        rejected == c.pc = "failed" /\ c.error \in
                      {"Facebook app not found", "Facebook Access Token is required"}
    IN ((resolved \/ rejected) /\ c.userId \in DOMAIN users) =>
       LET apps  == users[c.userId].facebookApps
           named == {i \in DOMAIN apps : c.appId # Undef /\ apps[i]._id = c.appId[2]}
       IN IF c.appId # Undef
          THEN /\ named # {} =>
                    resolved /\ \E i \in named : c.accessToken = apps[i].accessToken
               /\ named = {} => rejected
          ELSE IF apps # <<>> THEN resolved /\ c.accessToken = apps[1].accessToken
          ELSE IF users[c.userId].accessToken # Null
               THEN resolved /\ c.accessToken = users[c.userId].accessToken
          ELSE rejected

\* the ids of the upstream leads whose normalization throws
ThrowingIds ==
  {l.id : l \in {r \in UNION {UNION {{Upstream(f)[i][j] : j \in DOMAIN Upstream(f)[i]} :
                                      i \in DOMAIN Upstream(f)} : f \in {"F1", "F2"}} :
                 normalizeThrows(r)}}

(* C8: a raw lead whose normalization throws is left out of the fetched list
   and every well-formed lead of the same page is in it; the call goes on:
   when it is done, every fetched lead that has no entry in errors[] is
   stored and counted in `inserted`, and no throwing lead is ever stored. *)
C8_NormalizationFailureIsolated ==
  /\ \A p \in Procs :
       call[p].pc \in {"fetch", "save"} =>
         \A i \in DOMAIN call[p].pages : \A j \in DOMAIN call[p].pages[i] :
           LET raw == call[p].pages[i][j] IN
           normalizeThrows(raw) <=> raw.id \notin Ids(call[p].formLeads)
  /\ \A p \in Procs :
       call[p].pc = "done" =>
         /\ call[p].inserted = Len(call[p].allLeads) - Len(call[p].errors)
         /\ \A i \in DOMAIN call[p].allLeads :
              \/ call[p].allLeads[i].leadId \in Ids(call[p].errors)
              \/ Copies(call[p].allLeads[i].leadId) # {}
  /\ \A i \in DOMAIN leads : leads[i].leadId \notin ThrowingIds

\* the page <<L1, LB, L2>> was fetched, LB threw: L1 and L2 are stored and
\* counted, LB is not
C8_Witness ==
  \E p \in Procs :
    /\ call[p].pc = "done"
    /\ "LB" \in ThrowingIds
    /\ Ids(call[p].allLeads) = {"L1", "L2"}
    /\ call[p].inserted = 2
    /\ call[p].errors = <<>>
    /\ Copies("L1") # {} /\ Copies("L2") # {} /\ Copies("LB") = {}

(* C9: a lead whose upsert fails gets an entry in errors[] and the loop
   goes on: while the loop runs, inserted + |errors| is the number of leads
   processed; on return totalFetched = |leads fetched| = inserted + |errors|
   and every entry of errors[] names a fetched lead. *)
C9_EveryLeadCountedOrRecorded ==
  \A p \in Procs :
    LET c == call[p] IN
    /\ c.pc \in {"upsert", "insert"} =>
         /\ c.totalFetched = Len(c.allLeads)
         /\ c.k \in 1..Len(c.allLeads)
         /\ c.inserted + Len(c.errors) = c.k - 1
    /\ c.pc = "done" =>
         /\ c.totalFetched = Len(c.allLeads)
         /\ c.inserted + Len(c.errors) = c.totalFetched
         /\ \A e \in DOMAIN c.errors :
              c.errors[e].leadId \in Ids(c.allLeads) /\ c.errors[e].error # Null

\* the upsert of LX failed, the loop went on and upserted L5
C9_Witness ==
  \E p \in Procs :
    /\ call[p].pc = "done"
    /\ call[p].errors # <<>>
    /\ call[p].errors[1].leadId = "LX"
    /\ call[p].savedLead # <<>>
    /\ call[p].savedLead.leadId = "L5"
    /\ call[p].totalFetched = call[p].inserted + Len(call[p].errors)

(* C10, as claimed: when a sync of all forms of a user fails upstream for
   one form, the leads it fetched for the other forms are upserted. *)
C10_SiblingFormsSurvive ==
  \A p \in Procs :
    (/\ call[p].pc = "failed"
     /\ call[p].formId = Null
     /\ call[p].error = "Facebook API Error") =>
      \A i \in DOMAIN call[p].allLeads :
        call[p].allLeads[i].createdTime # InvalidDate
          => Copies(call[p].allLeads[i].leadId) # {}

\* C11: a form's lastFetchedAt is written after the upserts of that form's
\* fetched leads: once a call has saved lastFetchedAt of a form, every lead
\* it fetched for that form has been through the upsert loop.
C11_LastFetchedAfterUpserts ==
  \A p \in Procs : \A i \in DOMAIN forms :
    forms[i]._id \in call[p].saved =>
      \A n \in DOMAIN call[p].allLeads :
        call[p].allLeads[n].formId = forms[i].formId =>
          \/ n < call[p].k
          \/ n = call[p].k /\ call[p].pc = "done"

\* the stored forms that are active
ActiveStored == {i \in DOMAIN forms : forms[i].isActive}

\* the scheduled callback hands the next form to syncFacebookLeads
CronStarts ==
  /\ cronForms # <<>>
  /\ cronForms' = Tail(cronForms)

\* C23: a lead-sync tick attempts a sync for exactly the forms that are
\* isActive when it loads them: it loads every active form and no other, it
\* starts the syncs in that order with the form's own ids, a sync that fails
\* leaves the forms still to sync as they are, and the tick sends no
\* upstream request for a form that is not active.
C23_TickSyncsActiveForms ==
  /\ [](/\ \A n \in DOMAIN cronForms :
             \E i \in ActiveStored : cronForms[n] = Populate(users, forms[i])
        /\ \A r \in DOMAIN call["cron"].sent :
             \E i \in ActiveStored :
               /\ forms[i].formId = call["cron"].sent[r].formId
               /\ forms[i].userId = call["cron"].userId)
  /\ [][ /\ (cronForms = <<>> /\ cronForms' # <<>>) =>
              /\ Len(cronForms') = Cardinality(ActiveStored)
              /\ \A i \in ActiveStored :
                   \E n \in DOMAIN cronForms' : cronForms'[n] = Populate(users, forms[i])
         /\ cronForms' # cronForms =>
              \/ cronForms = <<>>
              \/ /\ CronStarts
                 /\ call["cron"].pc = "idle"
                 /\ call'["cron"].pc \in {"watermark", "failed"}
                 /\ call'["cron"].formId = Head(cronForms).formId
                 /\ call'["cron"].appId = Head(cronForms).facebookAppId
                 /\ call'["cron"].pc = "watermark" =>
                      call'["cron"].userId = Head(cronForms).userId
         /\ (call["cron"].pc # "idle" /\ call'["cron"] # call["cron"]) =>
              cronForms' = cronForms ]_vars

\* the sync of the tick's first form failed (its credential was not found);
\* the tick went on and sent the leads request of its second form
C23_Witness ==
  /\ Len(users["u1"].facebookApps) = 2
  /\ call["cron"].userId = "u1"
  /\ call["cron"].formId = "F2"
  /\ call["cron"].sent # <<>>
  /\ Len(cronForms) = 1

\* the owner of the form a call syncs has a credential with a token
OwnerHasCredential(c) ==
  /\ c.userId \in DOMAIN users
  /\ \E i \in DOMAIN users[c.userId].facebookApps :
       users[c.userId].facebookApps[i].accessToken # Null

\* C27: an all-forms sync loses no lead.  When a sync without formId has
\* completed without error, every lead the upstream holds for each active
\* form it covers is stored, also a lead that is older than the newest
\* stored lead of another form of the user.  (Stated for the forms whose
\* leads come in one page: for them a completed sync had every request
\* answered.)
C27_AllFormsSyncLosesNoLead ==
  \A p \in Procs :
    LET c == call[p] IN
    (/\ c.pc = "done"
     /\ c.formId = Null
     /\ c.errors = <<>>) =>
      \A i \in DOMAIN forms :
        (/\ forms[i].userId = c.userId
         /\ forms[i].isActive
         /\ Len(Upstream(forms[i].formId)) = 1) =>
          \A n \in DOMAIN Upstream(forms[i].formId)[1] :
            LET lead == Upstream(forms[i].formId)[1][n] IN
            (~normalizeThrows(lead) /\ lead.created_time # InvalidDate)
              => Copies(lead.id) # {}

\* C29: the scheduled sync of an active form whose owner has a credential
\* with a token sends the upstream leads request of that form: such a sync
\* never ends without a request.
C29_ScheduledSyncSendsRequest ==
  LET c == call["cron"] IN
  (/\ c.pc \in {"done", "failed"}
   /\ c.userId # Null
   /\ OwnerHasCredential(c)) =>
     \E r \in DOMAIN c.sent : c.sent[r].formId = c.formId

(* ------------------ two users with one upstream form ------------------ *)
\* the Lead collection after u2 synced the upstream form F1 (which u1 has
\* too), and worked on the lead, before switching the form off
LeadsOfU2 ==
  << [leadId |-> "L1", userId |-> "u2", formId |-> "F1", createdTime |-> 1,
      fullName |-> Null, email |-> "a@x", phone |-> Null,
      status |-> "contacted", notes |-> "called", lastSyncedAt |-> 2] >>

IsolationInit ==
  /\ users \in {u \in UserConfigs : Len(u["u1"].facebookApps) = 2}
  /\ forms = InitForms
  /\ leads = LeadsOfU2
  /\ now = Now0
  /\ call = [p \in Procs |-> IdleCall]
  /\ cronForms = <<>>
  /\ calls = 0
  /\ AnalyticsIdle
  /\ TokenIdle
  /\ DiscoveryIdle

IsolationSpec == IsolationInit /\ [][Next]_vars

\* C25: a sync run for user U never changes a Lead record owned by another
\* user: a step of the upsert loop of a call leaves every stored lead whose
\* userId is not the call's userId as it is, also when the upstream returns
\* to U a lead id that is stored for V.
C25_SyncLeavesOtherUsersLeads ==
  [][ \A p \in Procs :
        (call[p].pc \in {"upsert", "insert"} /\ call'[p] # call[p]) =>
          /\ Len(leads') >= Len(leads)
          /\ \A i \in DOMAIN leads :
               leads[i].userId # call[p].userId => leads'[i] = leads[i] ]_vars

(* ========================= AnalyticsService ========================== *)
(* ------------------------------ bounds -------------------------------- *)
\* insights requests (insights endpoint + CSV export) started over a run
MaxGets == 3
\* hours the clock advances over a run
MaxHours == 7

\* expiresAt.setHours(expiresAt.getHours() + 6), in hours
SixHours == 6
\* Date.now() + 1000 * 60 * 60, in hours
OneHour == 1

\* the enum of analyticsSchema.datePreset; the controller's validDatePresets
ValidDatePresets ==
  {"today", "yesterday", "last_7d", "last_30d", "last_90d", "this_month", "last_month"}

\* the payload the upstream answers an insights request with: the insights
\* as they stand at the time of the request
Payload(clock) == <<"insights", clock>>

\* access tokens the upstream rejects
InvalidTokens == {"bad"}

\* adAccountId.startsWith('act_') ? adAccountId : `act_${adAccountId}`
formattedAdAccountId(adAccountId) ==
  CASE adAccountId = "123" -> "act_123"
    [] OTHER -> adAccountId

\* the query of GET {act}/insights
InsightsRequest(accessToken, adAccountId, datePreset, breakdown) ==
  [account |-> formattedAdAccountId(adAccountId), access_token |-> accessToken,
   date_preset |-> datePreset, breakdowns |-> breakdown]

(* ------------------------ the Analytics collection -------------------- *)
KeyOf(r) == <<r.userId, r.adAccountId, r.datePreset, r.breakdown>>

\* Analytics.findOne({userId, adAccountId, datePreset, breakdown}): the
\* first match in index order (equal keys lie in insertion order), 0 if none
FindOne(docs, key) ==
  IF \E i \in DOMAIN docs : KeyOf(docs[i]) = key
  THEN CHOOSE i \in DOMAIN docs :
         /\ KeyOf(docs[i]) = key
         /\ \A j \in DOMAIN docs : KeyOf(docs[j]) = key => i =< j
  ELSE 0

FindById(docs, id) ==
  IF \E i \in DOMAIN docs : docs[i]._id = id
  THEN CHOOSE i \in DOMAIN docs : docs[i]._id = id
  ELSE 0

\* cachedData.expiresAt > new Date()
Unexpired_Always(doc, clock) == TRUE

Unexpired(doc, clock) == doc.expiresAt > clock

\* mongoose validation of a new Analytics document: datePreset is an enum
Validates(doc) == doc.datePreset \in ValidDatePresets

(* --------------------- analyticsController handlers ------------------- *)
SetGet(p, c) == get' = [get EXCEPT ![p] = c]

\* the handler answers with data: the locals of the service call are gone
Answer(c, data) ==
  [c EXCEPT !.pc = "done", !.result = data, !.freshData = Null,
            !.expiresAt = NoDate, !.analytics = <<>>]

\* the handler answers with an error
Throw(c, message) ==
  [c EXCEPT !.pc = "failed", !.error = message, !.freshData = Null,
            !.expiresAt = NoDate, !.analytics = <<>>]

\* the handler answers without calling the service
Rejected(c, message) == Throw(c, message)

\* the handler of caller p has answered (res.json, res.send,
\* res.status(...).json) or has not been called yet
Answered(p) == get[p].pc \in {"idle", "done", "failed"}

\* caller p can take a request: "b" stands for a request that arrives
\* while "a" is busy
Free(p) ==
  /\ Answered(p)
  /\ p = "b" => ~Answered("a")

\* getInsights (controller): req.query.access_token, else the first
\* credential that has a token, else the legacy token
QueryOrStoredToken(user, queryToken) ==
  IF queryToken # Null THEN queryToken
  ELSE IF Len(user.facebookApps) > 0 THEN user.facebookApps[1].accessToken
  ELSE user.accessToken

\* AnalyticsService.getInsights is entered: with forceRefresh the cache
\* lookup is skipped
EnterService(c) ==
  [c EXCEPT !.pc = IF c.forceRefresh THEN "fetch" ELSE "lookup"]

\* the requests of the run: [date_preset, force_refresh, access_token]
InsightsInputs ==
  { [date_preset |-> "last_7d", force_refresh |-> FALSE, access_token |-> Null],
    [date_preset |-> "last_7d", force_refresh |-> FALSE, access_token |-> "bad"],
    [date_preset |-> "last_7d", force_refresh |-> TRUE,  access_token |-> Null],
    [date_preset |-> "bogus",   force_refresh |-> FALSE, access_token |-> Null] }

ExportInputs == {"last_7d", "bogus"}

\* GET /analytics/insights of user u1 for ad account 123
getInsights(p, in) ==
  LET c0 == [IdleGet EXCEPT !.path = "insights", !.userId = "u1",
               !.adAccountId = "123", !.datePreset = in.date_preset,
               !.forceRefresh = in.force_refresh,
               !.accessToken = QueryOrStoredToken(users["u1"], in.access_token)] IN
  /\ Free(p)
  /\ gets < MaxGets
  /\ gets' = gets + 1
  /\ IF in.date_preset \notin ValidDatePresets
     THEN SetGet(p, Rejected(c0, "Invalid date preset"))
     ELSE IF c0.accessToken = Null
     THEN SetGet(p, Rejected(c0, "No Facebook access token available"))
     ELSE SetGet(p, EnterService(c0))
  /\ UNCHANGED <<users, now, syncVars, tokenVars, discoveryVars, cache, refresh>>

\* GET /analytics/export of user u1 for ad account 123: date_preset is only
\* tested for presence
exportInsights(p, date_preset) ==
  LET c0 == [IdleGet EXCEPT !.path = "export", !.userId = "u1",
               !.adAccountId = "123", !.datePreset = date_preset,
               !.accessToken = QueryOrStoredToken(users["u1"], Null)] IN
  /\ Free(p)
  /\ gets < MaxGets
  /\ gets' = gets + 1
  /\ IF c0.accessToken = Null
     THEN SetGet(p, Rejected(c0, "No Facebook access token available"))
     ELSE SetGet(p, EnterService(c0))
  /\ UNCHANGED <<users, now, syncVars, tokenVars, discoveryVars, cache, refresh>>

(* --------------------- AnalyticsService.getInsights ------------------- *)
\* const cachedData = await Analytics.findOne(key);
\* if (cachedData && cachedData.expiresAt > new Date()) return cachedData.data
LookupCache(p) ==
  LET c == get[p]
      i == FindOne(cache, KeyOf(c)) IN
  /\ c.pc = "lookup"
  /\ IF i # 0 /\ Unexpired(cache[i], now)
     THEN SetGet(p, Answer(c, cache[i].data))
     ELSE SetGet(p, [c EXCEPT !.pc = "fetch"])
  /\ UNCHANGED <<users, now, syncVars, tokenVars, discoveryVars, cache, refresh, gets>>

\* `Facebook API Error: ${error.response.data.error.message}`
UpstreamError == "Facebook API Error: upstream message"

\* a fetch error that is cached as if it were a payload
AfterFetchError_CacheIt(c, message) ==
  [c EXCEPT !.pc = "cacheFind", !.freshData = <<"error", message>>,
            !.error = message, !.expiresAt = 0]

\* fetchInsights rethrows, getInsights rethrows: cacheInsights is not reached
AfterFetchError(c, message) == Throw(c, message)

\* await this.fetchInsights(...): the request is sent; the upstream answers
\* with a payload or with an error (always an error for a rejected token).
\* On a payload cacheInsights starts: expiresAt = now + 6 hours.
FetchInsights(p, ok) ==
  LET c  == get[p]
      c1 == [c EXCEPT !.sent = Append(c.sent,
               InsightsRequest(c.accessToken, c.adAccountId, c.datePreset, c.breakdown))] IN
  /\ c.pc = "fetch"
  /\ ok => c.accessToken \notin InvalidTokens
  /\ IF ok
     THEN SetGet(p, [c1 EXCEPT !.pc = "cacheFind", !.freshData = Payload(now),
                               !.expiresAt = now + SixHours])
     ELSE SetGet(p, AfterFetchError(c1, UpstreamError))
  /\ UNCHANGED <<users, now, syncVars, tokenVars, discoveryVars, cache, refresh, gets>>

(* -------------------- AnalyticsService.cacheInsights ------------------ *)
\* the _id of a document constructed by caller p at an instant
ObjectId(p, clock) == <<p, clock>>

\* let analytics = await Analytics.findOne(key): the document found, with
\* data, fetchedAt and expiresAt replaced, or a new document
CacheFind(p) ==
  LET c == get[p]
      i == FindOne(cache, KeyOf(c)) IN
  /\ c.pc = "cacheFind"
  /\ IF i # 0
     THEN SetGet(p, [c EXCEPT !.pc = "cacheSave",
            !.analytics = [cache[i] EXCEPT !.data = c.freshData, !.fetchedAt = now,
                                           !.expiresAt = c.expiresAt]])
     ELSE SetGet(p, [c EXCEPT !.pc = "cacheSave",
            !.analytics = [_id |-> ObjectId(p, now), userId |-> c.userId,
                           adAccountId |-> c.adAccountId, datePreset |-> c.datePreset,
                           breakdown |-> c.breakdown, data |-> c.freshData,
                           fetchedAt |-> now, expiresAt |-> c.expiresAt,
                           isNew |-> TRUE]])
  /\ UNCHANGED <<users, now, syncVars, tokenVars, discoveryVars, cache, refresh, gets>>

\* the stored form of a document
Stored(doc) == [doc EXCEPT !.isNew = FALSE]

\* await analytics.save(): a new document is validated and inserted (the
\* index on the key is not unique); a found document is updated by _id, and
\* the save fails when the document is gone
CacheSave(p) ==
  LET c   == get[p]
      doc == c.analytics
      i   == FindById(cache, doc._id) IN
  /\ c.pc = "cacheSave"
  /\ IF doc.isNew
     THEN IF Validates(doc)
          THEN /\ cache' = Append(cache, Stored(doc))
               /\ SetGet(p, Answer(c, c.freshData))
          ELSE /\ SetGet(p, Throw(c, "ValidationError"))
               /\ UNCHANGED cache
     ELSE IF i # 0
          THEN /\ cache' = [cache EXCEPT ![i] = Stored(doc)]
               /\ SetGet(p, Answer(c, c.freshData))
          ELSE /\ SetGet(p, Throw(c, "DocumentNotFoundError"))
               /\ UNCHANGED cache
  /\ UNCHANGED <<users, now, syncVars, tokenVars, discoveryVars, refresh, gets>>


(* --------------------- AnalyticsService.setupCronJob ------------------ *)
\* Analytics.find({expiresAt: {$lt: now + 1 hour}}).populate('userId', 'facebookApps')
\* a query without the filter on expiresAt
AboutToExpire_All(docs, clock) == docs

AboutToExpire(docs, clock) ==
  SelectSeq(docs, LAMBDA d : d.expiresAt < clock + OneHour)

\* the refresh callback fires: the records about to expire are loaded
refreshTick ==
  /\ refresh = <<>>
  /\ AboutToExpire(cache, now) # <<>>
  /\ refresh' = AboutToExpire(cache, now)
  /\ UNCHANGED <<users, now, syncVars, tokenVars, discoveryVars, cache, get, gets>>

\* one record of the refresh loop: skipped when its user has no credential;
\* else fetchInsights with the first credential's token and, on a payload,
\* record.save() with a new data, fetchedAt and expiresAt.  Any error is
\* logged and the loop goes on.
refreshRecord(ok) ==
  LET record == Head(refresh)
      apps   == IF record.userId \in DOMAIN users
                THEN users[record.userId].facebookApps ELSE <<>>
      \* record.userId.facebookApps.find(app => app.accessToken)
      found  == SelectSeq(apps, LAMBDA app : app.accessToken # Null)
      i      == FindById(cache, record._id) IN
  /\ refresh # <<>>
  /\ refresh' = Tail(refresh)
  /\ IF found = <<>>
     THEN /\ ok
          /\ UNCHANGED cache
     ELSE /\ IF ok /\ i # 0
             THEN cache' = [cache EXCEPT ![i].data = Payload(now), ![i].fetchedAt = now,
                                         ![i].expiresAt = now + SixHours]
             ELSE UNCHANGED cache
  /\ UNCHANGED <<users, now, syncVars, tokenVars, discoveryVars, get, gets>>

\* the TTL index {expiresAt: 1}, expireAfterSeconds 0: a pass of the TTL
\* monitor removes the documents whose expiresAt has passed
ttlMonitor ==
  /\ \E i \in DOMAIN cache : cache[i].expiresAt < now
  /\ cache' = SelectSeq(cache, LAMBDA d : ~(d.expiresAt < now))
  /\ UNCHANGED <<users, now, syncVars, tokenVars, discoveryVars, get, refresh, gets>>

\* the instants at which the run is observed: an hour after its start, and
\* the instants at which a cache entry expires
Instants(docs) == {Now0 + OneHour} \cup {docs[i].expiresAt : i \in DOMAIN docs}

\* time passes, up to the next instant observed
Tick ==
  /\ \E t \in Instants(cache) :
       /\ t > now
       /\ t =< Now0 + MaxHours
       /\ \A u \in Instants(cache) : u > now => t =< u
       /\ now' = t
  /\ UNCHANGED <<users, syncVars, tokenVars, discoveryVars, cache, get, refresh, gets>>

AnalyticsInit ==
  /\ users \in UserConfigs
  /\ now = Now0
  /\ SyncIdle
  /\ AnalyticsIdle
  /\ TokenIdle
  /\ DiscoveryIdle

AnalyticsNext ==
  \/ \E p \in AProcs, in \in InsightsInputs : getInsights(p, in)
  \/ \E p \in AProcs, d \in ExportInputs : exportInsights(p, d)
  \/ \E p \in AProcs : LookupCache(p)
  \/ \E p \in AProcs, ok \in BOOLEAN : FetchInsights(p, ok)
  \/ \E p \in AProcs : CacheFind(p)
  \/ \E p \in AProcs : CacheSave(p)
  \/ refreshTick
  \/ \E ok \in BOOLEAN : refreshRecord(ok)
  \/ ttlMonitor
  \/ Tick

AnalyticsSpec == AnalyticsInit /\ [][AnalyticsNext]_vars

(* ================== properties of the insights cache ================== *)
\* the entries of the key of request c that have not expired
UnexpiredFor(c) ==
  {i \in DOMAIN cache : KeyOf(cache[i]) = KeyOf(c) /\ cache[i].expiresAt > now}

(* C12, as claimed: while an entry cached for a key has not expired, a get()
   for that key without forceRefresh returns cached data and sends no
   upstream request: its cache lookup ends the request with the data of an
   unexpired entry of the key. *)
C12_HitBeforeExpiry ==
  [][\A p \in AProcs :
       (get[p].pc = "lookup" /\ get'[p] # get[p] /\ UnexpiredFor(get[p]) # {}) =>
         /\ get'[p].pc = "done"
         /\ get'[p].sent = <<>>
         /\ \E i \in UnexpiredFor(get[p]) : get'[p].result = cache[i].data]_vars

\* C13: get() returns cached data only from an entry whose expiresAt is
\* later than the current time, and never with forceRefresh; otherwise it
\* sends one upstream request and returns the payload of that request (or
\* fails).
C13_NoExpiredData ==
  /\ [](\A p \in AProcs :
          (get[p].pc = "done" /\ get[p].forceRefresh) => Len(get[p].sent) = 1)
  /\ [][\A p \in AProcs :
          /\ (get'[p].pc = "done" /\ get'[p] # get[p] /\ get'[p].sent = <<>>) =>
               /\ ~get[p].forceRefresh
               /\ \E i \in UnexpiredFor(get[p]) : get'[p].result = cache[i].data
          /\ (get'[p].pc = "done" /\ get'[p] # get[p] /\ get'[p].sent # <<>>) =>
               /\ Len(get'[p].sent) = 1
               /\ get'[p].result = get[p].freshData]_vars

\* a request without forceRefresh found only an expired entry for its key
\* and is about to ask the upstream
C13_Witness ==
  \E p \in AProcs :
    /\ get[p].pc = "fetch"
    /\ ~get[p].forceRefresh
    /\ UnexpiredFor(get[p]) = {}
    /\ \E i \in DOMAIN cache :
         KeyOf(cache[i]) = KeyOf(get[p]) /\ cache[i].expiresAt =< now

(* C14, as claimed: the cache holds at most one entry per key
   (userId, adAccountId, datePreset, breakdown). *)
C14_OneEntryPerKey ==
  \A i, j \in DOMAIN cache : KeyOf(cache[i]) = KeyOf(cache[j]) => i = j

(* C15, as claimed: no upstream insights request carries a datePreset
   outside the enumerated set, and no cache entry is stored for one. *)
C15_InvalidPresetNeverSent ==
  /\ \A p \in AProcs : \A n \in DOMAIN get[p].sent :
       get[p].sent[n].date_preset \in ValidDatePresets
  /\ \A i \in DOMAIN refresh : refresh[i].datePreset \in ValidDatePresets
  /\ \A i \in DOMAIN cache : cache[i].datePreset \in ValidDatePresets

\* C16: when the upstream request of a get() fails, the get() fails with the
\* upstream message and writes nothing: the cache is unchanged by the failing
\* step, cacheInsights is reached only with a payload, and every entry holds
\* a payload.
C16_NoNegativeCaching ==
  /\ [](\A i \in DOMAIN cache : cache[i].data[1] = "insights")
  /\ [][\A p \in AProcs :
          (get[p].pc = "fetch" /\ get'[p] # get[p]) =>
            \/ /\ get'[p].pc = "failed"
               /\ get'[p].error = UpstreamError
               /\ cache' = cache
            \/ /\ get'[p].pc = "cacheFind"
               /\ get'[p].freshData = Payload(now)]_vars

\* a forced refresh failed upstream while an entry for its key is cached
C16_Witness ==
  \E p \in AProcs :
    /\ get[p].pc = "failed"
    /\ get[p].error = UpstreamError
    /\ \E i \in DOMAIN cache : KeyOf(cache[i]) = KeyOf(get[p])

\* the owner of a cache entry has a credential with a token
OwnerHasToken(record) ==
  /\ record.userId \in DOMAIN users
  /\ \E i \in DOMAIN users[record.userId].facebookApps :
       users[record.userId].facebookApps[i].accessToken # Null

MaxOps == 3

\* response.data.expires_in || 5184000 seconds, in hours
SixtyDays == 1440

\* String.prototype.trim, and the `trim: true` setter of the schema
trim(str) ==
  CASE str = " X " -> "X"
    [] str = " Mine " -> "Mine"
    [] str = "  " -> ""
    [] OTHER -> str

\* !value of a string or null
Falsy(str) == str = Null \/ str = ""

\* the n-th _id the driver generates for a credential subdocument
NewOid(n) == <<"c1", "c2", "c3", "c4", "c5">>[n]

\* `app_${Date.now()}_${Math.floor(Math.random() * 1000)}`, n-th value
GenAppId(n) == <<"app_1", "app_2", "app_3", "app_4", "app_5">>[n]
GeneratedAppIds == {GenAppId(n) : n \in 1..5}

\* `Facebook App (${timestamp})` of saveUserToken and of the pre-save hook,
\* `Facebook App ${timestamp}` of the saveToken handler
\* as strings, for the instants the clock takes
Stamped(prefix) ==
  [t \in 1..12 |->
     CASE prefix = "service" ->
            <<"Facebook App (1)", "Facebook App (2)", "Facebook App (3)",
              "Facebook App (4)", "Facebook App (5)", "Facebook App (6)",
              "Facebook App (7)", "Facebook App (8)", "Facebook App (9)",
              "Facebook App (10)", "Facebook App (11)", "Facebook App (12)">>[t]
       [] OTHER ->
            <<"Facebook App 1", "Facebook App 2", "Facebook App 3",
              "Facebook App 4", "Facebook App 5", "Facebook App 6",
              "Facebook App 7", "Facebook App 8", "Facebook App 9",
              "Facebook App 10", "Facebook App 11", "Facebook App 12">>[t]]
ServiceName == Stamped("service")[now]
HandlerName == Stamped("handler")[now]
ServiceNames == {Stamped("service")[t] : t \in 1..12}
HandlerNames == {Stamped("handler")[t] : t \in 1..12}

\* a credential as stored: the setters of facebookAppSchema trim appId and
\* appName
Credential(id, appId, appName, tok, type, exp) ==
  [_id |-> id, appId |-> IF appId = Null THEN Null ELSE trim(appId),
   appName |-> IF appName = Null THEN Null ELSE trim(appName),
   accessToken |-> tok, tokenType |-> type, expiresAt |-> exp]

\* !app.appName || app.appName.trim() === ''
IsBlank_Never(appName) == FALSE

IsBlank(appName) == Falsy(appName) \/ trim(appName) = ""

\* userSchema.pre('save') when facebookApps is modified: every credential
\* without a name gets a generated one
preSave(user) ==
  [user EXCEPT !.facebookApps =
     [i \in DOMAIN user.facebookApps |->
        IF IsBlank(user.facebookApps[i].appName)
        THEN [user.facebookApps[i] EXCEPT !.appName = ServiceName]
        ELSE user.facebookApps[i]]]

\* user.facebookApps.findIndex(app => tokenData.appId && app.appId === tokenData.appId)
existingAppIndex(apps, appId) ==
  IF ~Falsy(appId) /\ \E i \in DOMAIN apps : apps[i].appId = appId
  THEN CHOOSE i \in DOMAIN apps :
         /\ apps[i].appId = appId
         /\ \A j \in DOMAIN apps : apps[j].appId = appId => i =< j
  ELSE 0

\* the appName saveUserToken uses
NameOrGenerated(appName) ==
  IF IsBlank(appName) THEN ServiceName ELSE trim(appName)

\* FacebookTokenService.saveUserToken: the user document it saves.  n is the
\* number of ids issued so far.
saveUserToken(user, tokenData, n) ==
  LET i       == existingAppIndex(user.facebookApps, tokenData.appId)
      appName == NameOrGenerated(tokenData.appName)
      newApp  == Credential(NewOid(n + 1),
                   IF Falsy(tokenData.appId) THEN GenAppId(n + 1) ELSE tokenData.appId,
                   appName, tokenData.accessToken, tokenData.tokenType,
                   tokenData.expiresAt)
      apps    == IF i # 0
                 THEN [user.facebookApps EXCEPT
                         ![i] = Credential(@._id, @.appId, appName, tokenData.accessToken,
                                           tokenData.tokenType, tokenData.expiresAt)]
                 ELSE Append(user.facebookApps, newApp)
  IN preSave([user EXCEPT !.accessToken = tokenData.accessToken, !.facebookApps = apps])

(* ------------------ facebookTokenController handlers ------------------ *)
\* the user documents the credential handlers can start from: a new user;
\* a user with one credential saved; a user from before the credential
\* list, with the legacy token only
TokenUserConfigs ==
  { [u1 |-> [facebookApps |-> <<>>, accessToken |-> Null]],
    [u1 |-> [facebookApps |->
               <<Credential("c0", "X", "Mine", "tok1", "short_lived", NoDate)>>,
             accessToken |-> "tok1"]],
    [u1 |-> [facebookApps |-> <<>>, accessToken |-> "tokL"]] }

\* the HTTP response of a credential handler to a request about appId
Reply(handler, appId, status, deleted) ==
  [handler |-> handler, appId |-> appId, status |-> status, deleted |-> deleted]

\* an operation of the authenticated user u1 starts
StartOp ==
  /\ ops < MaxOps
  /\ ops' = ops + 1
  /\ now' = now + 1

\* req.body of POST /token: <<appId, appName>>
SaveInputs ==
  { <<Null, Null>>, <<"X", " Mine ">>, <<" X ", "  ">>, <<"X", Null>> }

\* saveToken: the name is the trimmed appName or a generated one; the token
\* is saved as short_lived
saveToken(accessToken, appId, appName) ==
  LET finalAppName == IF IsBlank(appName) THEN HandlerName ELSE trim(appName)
      user == saveUserToken(users["u1"],
                [accessToken |-> accessToken, appId |-> appId,
                 appName |-> finalAppName, tokenType |-> "short_lived",
                 expiresAt |-> NoDate], created) IN
  /\ StartOp
  /\ users' = [users EXCEPT !["u1"] = user]
  /\ created' = IF Len(user.facebookApps) > Len(users["u1"].facebookApps)
                THEN created + 1 ELSE created
  /\ reply' = Reply("saveToken", appId, 200, FALSE)
  /\ UNCHANGED <<syncVars, analyticsVars, discoveryVars, exchange>>

\* FacebookTokenService.getUserApps: the credentials, or the legacy token as
\* the credential 'legacy' when there is none
getUserApps(user) ==
  IF user.facebookApps = <<>> /\ ~Falsy(user.accessToken)
  THEN <<Credential("legacy", Null, "Default App", user.accessToken, "unknown", NoDate)>>
  ELSE user.facebookApps

\* req.body.appId of POST /token/exchange: none, or the _id of a credential
ExchangeInputs == {Null, "c0", "c1"}

\* exchangeToken up to the request to the upstream: the token of the
\* credential whose _id is appId, or the legacy token without appId
exchangeToken(appId) ==
  LET apps == getUserApps(users["u1"])
      hits == SelectSeq(apps, LAMBDA a :
                a._id = IF Falsy(appId) THEN "legacy" ELSE appId) IN
  /\ exchange.pc = "idle"
  /\ StartOp
  /\ IF hits = <<>>
     THEN /\ reply' = Reply("exchangeToken", appId, 404, FALSE)
          /\ UNCHANGED exchange
     ELSE /\ exchange' = [pc |-> "sent", userId |-> "u1", appId |-> appId,
                          accessToken |-> hits[1].accessToken]
          /\ UNCHANGED reply
  /\ UNCHANGED <<users, syncVars, analyticsVars, discoveryVars, created>>

\* the upstream answers the exchange: on success the long-lived token is
\* saved with saveUserToken({accessToken, appId, tokenType, expiresAt})
exchangeAnswered(ok) ==
  LET user == saveUserToken(users["u1"],
                [accessToken |-> "tokLL", appId |-> exchange.appId, appName |-> Null,
                 tokenType |-> "long_lived", expiresAt |-> now + SixtyDays], created) IN
  /\ exchange.pc = "sent"
  /\ exchange' = IdleExchange
  /\ IF ok
     THEN /\ users' = [users EXCEPT !["u1"] = user]
          /\ created' = IF Len(user.facebookApps) > Len(users["u1"].facebookApps)
                        THEN created + 1 ELSE created
          /\ reply' = Reply("exchangeToken", exchange.appId, 200, FALSE)
     ELSE /\ reply' = Reply("exchangeToken", exchange.appId, 500, FALSE)
          /\ UNCHANGED <<users, created>>
  /\ UNCHANGED <<now, syncVars, analyticsVars, discoveryVars, ops>>

(* ---------------------- deleting a credential ------------------------- *)
\* userSchema.methods.deleteApp: the credential whose _id is appId, else
\* every credential whose appId field is appId; saved only when found
deleteApp_found(user, appId) ==
  \E i \in DOMAIN user.facebookApps :
    user.facebookApps[i]._id = appId \/ user.facebookApps[i].appId = appId

User_deleteApp(user, appId) ==
  LET apps == user.facebookApps
      byId == SelectSeq(apps, LAMBDA a : a._id # appId)
      byAppId == SelectSeq(apps, LAMBDA a : a.appId # appId) IN
  IF ~deleteApp_found(user, appId) THEN user
  ELSE preSave([user EXCEPT !.facebookApps =
                  IF Len(byId) < Len(apps) THEN byId ELSE byAppId])

\* FacebookTokenService.deleteUserApp, called when User.deleteApp found
\* nothing: 'legacy' clears the legacy token; for any other id deleteApp
\* finds nothing again and the $pull by _id removes nothing
deleteUserApp(user, appId) ==
  IF appId = "legacy" THEN [user EXCEPT !.accessToken = Null] ELSE user

\* req.params.appId of DELETE /apps/:appId
DeleteInputs == {"legacy", "c0", "c1", "X", "c9"}

\* deleteApp (handler): User.deleteApp, then the service when that found
\* nothing (the service does not throw, so `deleted` becomes true and the
\* third attempt is skipped); the answer is 200 with
\* deleted = !appStillExists
deleteApp(appId) ==
  LET user    == users["u1"]
      updated == IF deleteApp_found(user, appId) THEN User_deleteApp(user, appId)
                 ELSE deleteUserApp(user, appId)
      appStillExists == \E i \in DOMAIN updated.facebookApps :
                          updated.facebookApps[i]._id = appId IN
  /\ StartOp
  /\ users' = [users EXCEPT !["u1"] = updated]
  /\ reply' = Reply("deleteApp", appId, 200, ~appStillExists)
  /\ UNCHANGED <<syncVars, analyticsVars, discoveryVars, exchange, created>>

\* mongoose.Types.ObjectId(appId) accepts the strings that denote an ObjectId
IsObjectId(appId) == appId \in {"c0", "c1", "c2", "c3", "c4", "c5", "c9"}

\* req.params.appId of DELETE /apps/direct/:appId
DirectInputs == {"legacy", "c0", "c9"}

\* deleteAppDirect: User.updateOne({_id}, {$pull: {facebookApps: {_id}}}),
\* no document middleware; 200 whatever was removed
deleteAppDirect(appId) ==
  /\ StartOp
  /\ IF IsObjectId(appId)
     THEN /\ users' = [users EXCEPT !["u1"].facebookApps =
                         SelectSeq(@, LAMBDA a : a._id # appId)]
          /\ reply' = Reply("deleteAppDirect", appId, 200, FALSE)
     ELSE /\ reply' = Reply("deleteAppDirect", appId, 500, FALSE)
          /\ UNCHANGED users
  /\ UNCHANGED <<syncVars, analyticsVars, discoveryVars, exchange, created>>

(* ------------------ facebookPageController.getUserPages ---------------- *)
\* the page listing: with a credential and an answer of the upstream the
\* pages are set on the credential and the user is saved
getUserPages(ok) ==
  /\ StartOp
  /\ IF users["u1"].facebookApps = <<>>
     THEN /\ ok
          /\ reply' = Reply("getUserPages", Null, 404, FALSE)
          /\ UNCHANGED users
     ELSE IF ok
     THEN /\ users' = [users EXCEPT !["u1"] = preSave(@)]
          /\ reply' = Reply("getUserPages", Null, 200, FALSE)
     ELSE /\ reply' = Reply("getUserPages", Null, 400, FALSE)
          /\ UNCHANGED users
  /\ UNCHANGED <<syncVars, analyticsVars, discoveryVars, exchange, created>>

TokenInit ==
  /\ users \in TokenUserConfigs
  /\ now = Now0
  /\ SyncIdle
  /\ AnalyticsIdle
  /\ TokenIdle
  /\ DiscoveryIdle

TokenNext ==
  \/ \E in \in SaveInputs : saveToken("tokS", in[1], in[2])
  \/ \E appId \in ExchangeInputs : exchangeToken(appId)
  \/ \E ok \in BOOLEAN : exchangeAnswered(ok)
  \/ \E appId \in DeleteInputs : deleteApp(appId)
  \/ \E appId \in DirectInputs : deleteAppDirect(appId)
  \/ \E ok \in BOOLEAN : getUserPages(ok)

TokenSpec == TokenInit /\ [][TokenNext]_vars

(* ==================== properties of the credentials ==================== *)
Credentials == {users["u1"].facebookApps[i] : i \in DOMAIN users["u1"].facebookApps}

\* C17: whatever path created or updated it (a save with, without or with a
\* blank name, an exchange, a page listing that saves the user, the deletion
\* of another credential), every stored credential has a name that is not
\* null and has a non-blank character.
C17_AppNameNeverBlank ==
  \A c \in Credentials : c.appName # Null /\ trim(c.appName) # ""

\* a save without a usable name and an exchange have both stored a credential
\* under a generated name, and a later operation has saved the user again
C17_Witness ==
  /\ \E c \in Credentials : c.appName \in HandlerNames
  /\ \E c \in Credentials : c.appName \in ServiceNames
  /\ reply.handler \in {"getUserPages", "deleteApp"}
  /\ reply.status = 200

\* C18: saveUserToken updates the credential whose appId is the supplied one,
\* or appends one credential, never both; so no two credentials of a user
\* share an appId that a caller supplied (one that was not generated).
C18_NoSharedSuppliedAppId ==
  LET apps == users["u1"].facebookApps IN
  \A i, j \in DOMAIN apps :
    (i # j /\ apps[i].appId = apps[j].appId) => apps[i].appId \in GeneratedAppIds

\* the step in which a successful exchange is saved
ExchangeSaved ==
  /\ exchange.pc = "sent"
  /\ exchange'.pc = "idle"
  /\ reply'.handler = "exchangeToken"
  /\ reply'.status = 200

\* C19: a successful exchange for the credential C upgrades C itself: C is
\* then long_lived with the new token and the computed expiry, and the user
\* has as many credentials as before.
C19_ExchangeUpgradesInPlace ==
  [][ (/\ ExchangeSaved
       /\ \E i \in DOMAIN users["u1"].facebookApps :
            users["u1"].facebookApps[i]._id = exchange.appId)
      => /\ Len(users'["u1"].facebookApps) = Len(users["u1"].facebookApps)
         /\ \A i \in DOMAIN users'["u1"].facebookApps :
              users'["u1"].facebookApps[i]._id = exchange.appId =>
                /\ users'["u1"].facebookApps[i].tokenType = "long_lived"
                /\ users'["u1"].facebookApps[i].accessToken = "tokLL"
                /\ users'["u1"].facebookApps[i].expiresAt = now + SixtyDays ]_vars

\* the step in which DELETE /apps/:appId is answered
DeleteAnswered ==
  /\ ops' = ops + 1
  /\ reply'.handler = "deleteApp"

\* C20: deleting an id that matches no credential of the user reports that
\* nothing was found, not a deletion, and leaves the credentials and the
\* legacy token as they were (so does deleting it again); deleting the legacy
\* sentinel clears the legacy token only and removes no credential.
C20_DeleteIdempotent ==
  [][ DeleteAnswered =>
        /\ (reply'.appId # "legacy" /\ ~deleteApp_found(users["u1"], reply'.appId))
             => /\ ~reply'.deleted
                /\ users' = users
        /\ reply'.appId = "legacy"
             => /\ users'["u1"].facebookApps = users["u1"].facebookApps
                /\ users'["u1"].accessToken = Null ]_vars

\* the step in which a deletion of a credential is answered
DeleteStep ==
  /\ ops' = ops + 1
  /\ reply'.handler \in {"deleteApp", "deleteAppDirect"}

\* the tokens a user document holds in its credentials
TokensOf(user) == {user.facebookApps[i].accessToken : i \in DOMAIN user.facebookApps}

\* C26: a deleted credential's token is gone: once a deletion has removed a
\* credential, and no remaining credential was saved with the same token,
\* the token is not returned by getUserApps and is not the token a sync of
\* the user resolves.
C26_DeletedTokenIsGone ==
  [][ DeleteStep =>
        \A i \in DOMAIN users["u1"].facebookApps :
          LET c == users["u1"].facebookApps[i] IN
          (/\ \A j \in DOMAIN users'["u1"].facebookApps :
                users'["u1"].facebookApps[j]._id # c._id
           /\ c.accessToken \notin TokensOf(users'["u1"]))
            => /\ \A j \in DOMAIN getUserApps(users'["u1"]) :
                    getUserApps(users'["u1"])[j].accessToken # c.accessToken
               /\ validateUserConfig(users', "u1", Undef).accessToken # c.accessToken ]_vars

\* the step in which saveUserToken updates a stored credential without an
\* appName in its input: the save of an exchanged token that matched
UpdateWithoutName(i) ==
  /\ ExchangeSaved
  /\ i = existingAppIndex(users["u1"].facebookApps, exchange.appId)
  /\ i # 0

\* C28: updating an existing credential without supplying an appName (the
\* token-exchange path) leaves its appName as it was; only its token,
\* tokenType and expiresAt change.
C28_UpdateKeepsAppName ==
  [][ \A i \in DOMAIN users["u1"].facebookApps :
        UpdateWithoutName(i) =>
          /\ Len(users'["u1"].facebookApps) = Len(users["u1"].facebookApps)
          /\ users'["u1"].facebookApps[i] =
               [users["u1"].facebookApps[i] EXCEPT
                  !.accessToken = "tokLL", !.tokenType = "long_lived",
                  !.expiresAt = now + SixtyDays] ]_vars

(* ================== form discovery and form maintenance =============== *)
(* ------------------------------ bounds -------------------------------- *)
\* form operations (discoveries, manual adds, migrations) per behaviour
MaxRuns == 3

(* ------------------------------ the data ------------------------------ *)
\* facebookAppId: null as the schema default stores it (a stored value; Undef
\* stands for a document without the field)
NullAppId == <<"null">>

\* GET /me/accounts of a user token: the pages it manages
Pages ==
  << [id |-> "P1", name |-> "Page one", access_token |-> "pt1"],
     [id |-> "P2", name |-> "Page two", access_token |-> "pt2"] >>

\* GET /{page}/leadgen_forms: the forms of a page
PageForms(pageId) ==
  CASE pageId = "P1" -> << [id |-> "F1", name |-> "Form one"],
                           [id |-> "F3", name |-> "Form three"] >>
    [] pageId = "P2" -> << [id |-> "F4", name |-> "Form four"] >>
    [] OTHER -> << >>

\* the _id the driver gives the Form document of an upstream form
NewFormId(formId) == <<"form", formId>>

\* a Form document
StoredForm(id, u, f, name, active, app, fetched) ==
  [_id |-> id, userId |-> u, formId |-> f, formName |-> name,
   isActive |-> active, facebookAppId |-> app, lastFetchedAt |-> fetched]

\* the users of the discovery: u1 with two credentials, or with none
DiscoveryUserConfigs ==
  { [u1 |-> [facebookApps |->
               << Credential("c0", "X", "Mine", "tok1", "short_lived", NoDate),
                  Credential("c1", "Y", "Other", "tok2", "short_lived", NoDate) >>,
             accessToken |-> "tok2"]],
    [u1 |-> [facebookApps |-> <<>>, accessToken |-> Null]] }

\* the Form collection when the run starts: F1 was discovered with c1,
\* renamed upstream since, synced and switched off; F2 was added by hand
\* (facebookAppId null); F0 was stored before the schema had facebookAppId;
\* the owner of the last form is gone
DiscoveryForms ==
  << StoredForm(<<"form", "d1">>, "u1", "F1", "Old name", FALSE, Oid("c1"), 2),
     StoredForm(<<"form", "d2">>, "u1", "F2", Null, TRUE, NullAppId, NoDate),
     StoredForm(<<"form", "d0">>, "u1", "F0", Null, TRUE, Undef, NoDate),
     StoredForm(<<"form", "d9">>, "u9", "F9", Null, TRUE, Undef, NoDate) >>

\* a lookup that never finds the form
FindForm_None(fs, userId, formId) == 0

\* Form.findOne({userId, formId}): its position, 0 when there is none
FindForm(fs, userId, formId) ==
  IF \E i \in DOMAIN fs : fs[i].userId = userId /\ fs[i].formId = formId
  THEN CHOOSE i \in DOMAIN fs :
         /\ fs[i].userId = userId /\ fs[i].formId = formId
         /\ \A j \in DOMAIN fs : (fs[j].userId = userId /\ fs[j].formId = formId) => i =< j
  ELSE 0

\* what the form operations leave alone
formsFrame == <<leads, now, call, cronForms, calls, analyticsVars, tokenVars>>

\* what a discovery leaves alone
discoveryFrame == <<formsFrame, answer>>

StartRun ==
  /\ runs < MaxRuns
  /\ runs' = runs + 1

(* ---------------- facebookPageController.discoverForms ---------------- *)
\* the credential discoverForms uses: by _id, else by name, else the first
\* credential without a name for 'Unnamed App', else the first credential;
\* <<>> when the user has none
discoverApp(user, appId) ==
  LET apps   == user.facebookApps
      byId   == SelectSeq(apps, LAMBDA a : a._id = appId)
      byName == SelectSeq(apps, LAMBDA a :
                  \/ ~Falsy(a.appName) /\ toLowerCase(a.appName) = toLowerCase(appId)
                  \/ Falsy(a.appName) /\ appId = "Unnamed App")
  IN IF byId # <<>> THEN <<byId[1]>>
     ELSE IF byName # <<>> THEN <<byName[1]>>
     ELSE IF apps # <<>> THEN <<apps[1]>>
     ELSE <<>>

\* the answer of a discovery: res.status(status).json(...), or the value
\* the service returns (200) or throws (500)
Answered_(d, status) == [d EXCEPT !.pc = "done", !.status = status]

\* req.query.appId of GET /discover
DiscoverInputs == {Null, "c0", "MINE", "zz"}

\* discoverForms up to the request of the pages
discoverForms(appId) ==
  LET d   == [IdleDiscovery EXCEPT !.via = "handler", !.userId = "u1", !.appId = appId]
      app == discoverApp(users["u1"], appId) IN
  /\ discovery.pc \in {"idle", "done"}
  /\ StartRun
  /\ discovery' =
       IF Falsy(appId) THEN Answered_(d, 400)
       ELSE IF app = <<>> THEN Answered_(d, 404)
       ELSE [d EXCEPT !.pc = "accounts", !.app = app[1]._id,
                      !.accessToken = app[1].accessToken]
  /\ UNCHANGED <<users, forms, discoveryFrame>>

\* GET /me/accounts is answered: the loop over the pages starts.  A failure
\* is answered 400 by the handler and thrown on by the service.
accountsAnswered(ok) ==
  /\ discovery.pc = "accounts"
  /\ discovery' =
       IF ok THEN [discovery EXCEPT !.pc = "page", !.pages = Pages]
       ELSE Answered_(discovery, IF discovery.via = "handler" THEN 400 ELSE 500)
  /\ UNCHANGED <<users, forms, runs, discoveryFrame>>

\* the document discoverForms saves for a form that is not stored
NewForm(userId, formId, formName, app) ==
  StoredForm(NewFormId(formId), userId, formId, formName, TRUE, app, NoDate)

\* the loop of discoverForms over the forms of one page.  req counts the
\* requests sent for this page so far (the listing is the first); the request
\* number failAt fails and its error leaves the loop.
\* The result is <<forms, savedForms, failed>>.
RECURSIVE HandlerForms(_, _, _, _, _, _, _)
HandlerForms(up, fs, userId, app, saved, req, failAt) ==
  IF up = <<>> THEN <<fs, saved, FALSE>>
  ELSE IF FindForm(fs, userId, Head(up).id) # 0
  THEN HandlerForms(Tail(up), fs, userId, app, saved, req, failAt)
  ELSE IF req + 1 = failAt THEN <<fs, saved, TRUE>>
  ELSE HandlerForms(Tail(up),
                    Append(fs, NewForm(userId, Head(up).id, Head(up).name, Oid(app))),
                    userId, app, saved + 1, req + 1, failAt)

\* the requests whose failure is considered: the 1st to the 3rd of a page,
\* or none
FailAts == 0..3

\* a catch around the loop over the pages
AfterPageError_Abort(d) == Answered_(d, 500)

\* the catch is inside the loop over the pages: the next page is processed
AfterPageError(d) == d

\* the loop over the pages moves on, or the counts are answered
NextPage(d) ==
  LET d1 == [d EXCEPT !.pages = Tail(d.pages), !.scanned = d.scanned + 1] IN
  IF d.pc = "done" THEN d
  ELSE IF Tail(d.pages) = <<>> THEN Answered_(d1, 200) ELSE d1

\* one iteration of the loop of discoverForms over the pages
handlerPage(failAt) ==
  LET d     == discovery
      page  == Head(d.pages)
      up    == PageForms(page.id)
      r     == HandlerForms(up, forms, d.userId, d.app, 0, 1, failAt)
      total == [d EXCEPT !.totalForms = d.totalForms + Len(up)] IN
  /\ d.pc = "page"
  /\ d.via = "handler"
  /\ \* the request that fails is one this page sends
     failAt =< 1 + Len(up)
  /\ IF failAt = 1
     THEN /\ discovery' = NextPage(AfterPageError([d EXCEPT !.failed = d.failed \cup {page.id}]))
          /\ UNCHANGED forms
     ELSE /\ forms' = r[1]
          /\ discovery' =
               LET d2 == [total EXCEPT !.savedForms = d.savedForms + r[2]] IN
               IF r[3] THEN NextPage(AfterPageError([d2 EXCEPT !.failed = d.failed \cup {page.id}]))
               ELSE NextPage(d2)
  /\ UNCHANGED <<users, runs, discoveryFrame>>

(* -------------- FacebookPageService.discoverAndSaveForms -------------- *)
\* FacebookPageService.getUserPages up to its request: the token of the
\* credential whose _id is appId, or without appId the legacy token, else
\* the token of the first credential; Null when it throws
ServiceToken(user, appId) ==
  LET byId == SelectSeq(user.facebookApps, LAMBDA a : a._id = appId) IN
  IF ~Falsy(appId)
  THEN IF byId = <<>> THEN Null ELSE byId[1].accessToken
  ELSE IF ~Falsy(user.accessToken) THEN user.accessToken
  ELSE IF user.facebookApps # <<>> THEN user.facebookApps[1].accessToken
  ELSE Null

\* the appId argument of discoverAndSaveForms
ServiceInputs == {Null, "c0", "zz"}

\* discoverAndSaveForms up to the request of the pages
discoverAndSaveForms(appId) ==
  LET d   == [IdleDiscovery EXCEPT !.via = "service", !.userId = "u1", !.appId = appId]
      tok == ServiceToken(users["u1"], appId) IN
  /\ discovery.pc \in {"idle", "done"}
  /\ StartRun
  /\ discovery' =
       IF Falsy(tok) THEN Answered_(d, 500)
       ELSE [d EXCEPT !.pc = "accounts", !.app = appId, !.accessToken = tok]
  /\ UNCHANGED <<users, forms, discoveryFrame>>

\* facebookAppId as discoverAndSaveForms stores it: appId || null
ServiceAppId(appId) == IF Falsy(appId) THEN NullAppId ELSE Oid(appId)

\* the loop of discoverAndSaveForms over the forms of one page: a stored form
\* gets the upstream name (and the credential, when one was given); a form
\* that is not stored is inserted.  The result is <<forms, totalForms>>.
RECURSIVE ServiceForms(_, _, _, _, _)
ServiceForms(up, fs, userId, appId, saved) ==
  IF up = <<>> THEN <<fs, saved>>
  ELSE LET i == FindForm(fs, userId, Head(up).id) IN
       IF i # 0
       THEN ServiceForms(Tail(up),
              [fs EXCEPT ![i].formName = Head(up).name,
                         ![i].facebookAppId = IF Falsy(appId) THEN @ ELSE Oid(appId)],
              userId, appId, saved)
       ELSE ServiceForms(Tail(up),
              Append(fs, NewForm(userId, Head(up).id, Head(up).name, ServiceAppId(appId))),
              userId, appId, saved + 1)

\* one iteration of the loop of discoverAndSaveForms over the pages; ok is
\* whether getPageForms got its answer
servicePage(ok) ==
  LET d    == discovery
      page == Head(d.pages)
      r    == ServiceForms(PageForms(page.id), forms, d.userId, d.appId, 0) IN
  /\ d.pc = "page"
  /\ d.via = "service"
  /\ IF ok
     THEN /\ forms' = r[1]
          /\ discovery' = NextPage([d EXCEPT !.savedForms = d.savedForms + r[2]])
     ELSE /\ discovery' = NextPage(AfterPageError([d EXCEPT !.failed = d.failed \cup {page.id}]))
          /\ UNCHANGED forms
  /\ UNCHANGED <<users, runs, discoveryFrame>>

(* ------------------------- addForm, migrateForms ----------------------- *)
\* req.body of POST /forms: <<formId, formName>>
AddInputs == { <<"F3", "My form">>, <<"F5", Null>> }

\* addForm: a form the user names by its id; the schema defaults give it
\* facebookAppId null and isActive true
addForm(formId, formName) ==
  /\ StartRun
  /\ IF FindForm(forms, "u1", formId) # 0
     THEN /\ answer' = [route |-> "addForm", status |-> 400]
          /\ UNCHANGED forms
     ELSE /\ answer' = [route |-> "addForm", status |-> 201]
          /\ forms' = Append(forms, StoredForm(NewFormId(formId), "u1", formId, formName,
                                               TRUE, NullAppId, NoDate))
  /\ UNCHANGED <<users, discovery, formsFrame>>

\* Form.find({facebookAppId: {$exists: false}}): the documents without the
\* field; a stored null is a value
WithoutAppId(form) == form.facebookAppId = Undef

\* migrateForms: every form it selects whose owner exists and has a
\* credential gets the _id of the owner's first credential
migrateForms ==
  /\ StartRun
  /\ forms' = [i \in DOMAIN forms |->
                 IF /\ WithoutAppId(forms[i])
                    /\ forms[i].userId \in DOMAIN users
                    /\ users[forms[i].userId].facebookApps # <<>>
                 THEN [forms[i] EXCEPT !.facebookAppId =
                         Oid(users[forms[i].userId].facebookApps[1]._id)]
                 ELSE forms[i]]
  /\ answer' = [route |-> "migrate-forms", status |-> 200]
  /\ UNCHANGED <<users, discovery, formsFrame>>

DiscoveryInit ==
  /\ users \in DiscoveryUserConfigs
  /\ forms = DiscoveryForms
  /\ leads = <<>>
  /\ call = [p \in Procs |-> IdleCall]
  /\ cronForms = <<>>
  /\ calls = 0
  /\ now = Now0
  /\ AnalyticsIdle
  /\ TokenIdle
  /\ DiscoveryIdle

DiscoveryNext ==
  \/ \E appId \in DiscoverInputs : discoverForms(appId)
  \/ \E appId \in ServiceInputs : discoverAndSaveForms(appId)
  \/ \E ok \in BOOLEAN : accountsAnswered(ok)
  \/ \E failAt \in FailAts : handlerPage(failAt)
  \/ \E ok \in BOOLEAN : servicePage(ok)
  \/ \E in \in AddInputs : addForm(in[1], in[2])
  \/ migrateForms

DiscoverySpec == DiscoveryInit /\ [][DiscoveryNext]_vars

(* ===================== properties of the discovery ==================== *)
\* the step of a discovery that processes one page
PageStep ==
  /\ discovery.pc = "page"
  /\ discovery' # discovery

\* C21: a discovery inserts only forms that are not stored for
\* (userId, formId) and leaves the stored Form records as they are; the
\* count of new forms it reports grows by the number of records inserted
\* (so a second discovery of the same pages and forms inserts none).
C21_DiscoveryOnlyInserts ==
  [][ PageStep =>
        /\ Len(forms') >= Len(forms)
        /\ \A i \in DOMAIN forms : forms'[i] = forms[i]
        /\ \A i \in DOMAIN forms' :
             i > Len(forms) => FindForm(forms, forms'[i].userId, forms'[i].formId) = 0
        /\ \A i, j \in DOMAIN forms' :
             (forms'[i].userId = forms'[j].userId /\ forms'[i].formId = forms'[j].formId)
               => i = j
        /\ discovery'.savedForms - discovery.savedForms = Len(forms') - Len(forms) ]_vars

\* C21, amended: a discovery inserts only forms that are not stored for
\* (userId, formId), and the count of new forms it reports grows by the
\* number of records inserted (so a second discovery of the same pages and
\* forms inserts none).  discoverForms leaves the stored Form records as
\* they are; discoverAndSaveForms gives a stored form it meets upstream the
\* upstream name and, when a credential was named, that credential, and
\* leaves its isActive and lastFetchedAt, and every other record, as they are.
C21_DiscoveryInsertsOrUpdates ==
  [][ PageStep =>
        /\ Len(forms') >= Len(forms)
        /\ \A i \in DOMAIN forms :
             \/ forms'[i] = forms[i]
             \/ /\ discovery.via = "service"
                /\ forms[i].userId = discovery.userId
                /\ \E f \in {PageForms(Head(discovery.pages).id)[n] :
                               n \in DOMAIN PageForms(Head(discovery.pages).id)} :
                     /\ f.id = forms[i].formId
                     /\ forms'[i] = [forms[i] EXCEPT
                          !.formName = f.name,
                          !.facebookAppId = IF Falsy(discovery.appId) THEN @
                                            ELSE Oid(discovery.appId)]
        /\ \A i \in DOMAIN forms' :
             i > Len(forms) => FindForm(forms, forms'[i].userId, forms'[i].formId) = 0
        /\ \A i, j \in DOMAIN forms' :
             (forms'[i].userId = forms'[j].userId /\ forms'[i].formId = forms'[j].formId)
               => i = j
        /\ discovery'.savedForms - discovery.savedForms = Len(forms') - Len(forms) ]_vars

\* a discovery that met no failure found every upstream form stored and
\* reports no new form
C21_Witness ==
  /\ discovery.pc = "done"
  /\ discovery.status = 200
  /\ discovery.failed = {}
  /\ discovery.scanned = Len(Pages)
  /\ discovery.savedForms = 0
  /\ \A f \in {"F1", "F3", "F4"} : FindForm(forms, "u1", f) # 0

\* C22: when the listing or the saving of the forms of one page fails, the
\* discovery still processes every remaining page, persists their new forms
\* and ends with a success result: a page failure never yields a failure
\* result, a discovery that is answered has scanned every page, and the
\* forms of every page that did not fail are stored.
C22_PageFailureTolerated ==
  /\ discovery.failed # {} => discovery.status \in {0, 200}
  /\ discovery.pc = "page" =>
       /\ discovery.pages # <<>>
       /\ discovery.scanned + Len(discovery.pages) = Len(Pages)
  /\ (discovery.pc = "done" /\ discovery.failed # {}) => discovery.status = 200
  /\ (discovery.pc = "done" /\ discovery.status = 200) =>
       /\ discovery.scanned = Len(Pages)
       /\ \A n \in DOMAIN Pages :
            Pages[n].id \notin discovery.failed =>
              \A k \in DOMAIN PageForms(Pages[n].id) :
                FindForm(forms, discovery.userId, PageForms(Pages[n].id)[k].id) # 0

\* the first page failed; the form of the second page was inserted and the
\* discovery answered with success
C22_Witness ==
  /\ discovery.pc = "done"
  /\ discovery.status = 200
  /\ discovery.failed = {"P1"}
  /\ discovery.savedForms = 1
  /\ FindForm(forms, "u1", "F4") # 0
  /\ FindForm(forms, "u1", "F3") = 0

\* the step in which POST /migrate-forms runs migrateForms
MigrateStep ==
  /\ runs' = runs + 1
  /\ answer'.route = "migrate-forms"

\* a form with no Facebook app set: the field is missing or null
NoAppSet(form) == form.facebookAppId \in {Undef, NullAppId}

\* C24: after migrateForms every Form whose owner exists and has at least
\* one credential has a facebookAppId, the forms added by hand (stored with
\* facebookAppId null) included; the forms that had one are unchanged.
C24_MigrationSetsEveryForm ==
  [][ MigrateStep =>
        /\ Len(forms') = Len(forms)
        /\ \A i \in DOMAIN forms :
             /\ (/\ forms[i].userId \in DOMAIN users
                 /\ users[forms[i].userId].facebookApps # <<>>)
                  => ~NoAppSet(forms'[i])
             /\ ~NoAppSet(forms[i]) => forms'[i] = forms[i] ]_vars
====